---- MODULE Spec2Model ----
(***************************************************************************)
(* Cube Collector (clear-then-refill variant, src/unnamed/part_001 lines   *)
(* 407-1149): the frame loop, the population controller and the evasion    *)
(* steering of the target cubes.                                           *)
(*                                                                         *)
(* JavaScript numbers are modelled in fixed point:                         *)
(*   lengths and positions   in 1/PX pixel                                 *)
(*   velocities              in 1/PX pixel per second                      *)
(*   times (dt, timers)      in milliseconds                               *)
(*   health                  in 1/1000 health point                        *)
(*   factors, unit vectors   in 1/FP (per mille)                           *)
(*   heat                    in 1/1000 heat unit                           *)
(*   angles                  in steps of 2*pi/ANGLE_STEPS                  *)
(* Every division truncates toward zero (Trunc).                           *)
(***************************************************************************)
EXTENDS Integers, Sequences, FiniteSets, TLC

\* ------------------------------------------------------------------------
\* MODULE 1: Config (CFG)
\* ------------------------------------------------------------------------
PLAYER_SIZE == 24
PLAYER_SPEED == 240
TARGET_SIZE == 24
TARGET_MAX_SPEED == 220
TARGET_MAX_ACCEL == 600
HEALTH_MAX == 100
HEALTH_DECAY_PER_SEC == 8
HEALTH_REFILL_ON_CLEAR == 100
TIME_STEP_SEC == 30

\* the size of the page's canvas element: CFG.CANVAS_W, CFG.CANVAS_H
CANVAS_W == 640
CANVAS_H == 480

\* frame(): dt = Math.min(0.033, ...), in ms
DT_MAX == 33

\* spawnAvoidingPlayer(): placement attempts, and the fallback's inset
SPAWN_TRIES == 20
FALLBACK_INSET == 10

\* ------------------------------------------------------------------------
\* MODULE 7.1: AI_CFG (factors per mille, times in ms, lengths in pixels)
\* ------------------------------------------------------------------------
SEP_RADIUS == 90
SEP_FORCE == 900
ORBIT_DIST == 260
ORBIT_FORCE == 850
WALL_REPEL_MARGIN == 60
SLIDE_FORCE == 1150
JUKE_CLOSE_DIST == 190
JUKE_TRIGGER_ANGLE == 850
JUKE_COOLDOWN == 1100
JUKE_DURATION == 140
JUKE_PUSH == 1650
CORNER_NEAR_EDGE == 12
PATROL_COOLDOWN == 1600
PATROL_TIME == 500
PATROL_PUSH == 900
SAFE_BAND == 120
WANDER_T == 900
WANDER_MAG_FAR == 800
WANDER_MAG_NEAR == 350
PANIC_SPEED_UP == 1120
PANIC_DIST == 150
AI_JITTER == 280
SMOOTH == 600
LEAD == 220
RESTITUTION == 700

\* ------------------------------------------------------------------------
\* MODULE 7.8: AI_PROFILE
\* ------------------------------------------------------------------------
HEATMAP_BIAS == 750
SECTOR_STICK == 550
DISPERSION_MIN_SPACING == 110
DISPERSION_EDGE_FAN == 900
DISPERSION_EDGE == 12
HEATMAP_CELL == 80
HEATMAP_DECAY == 940
HEATMAP_PLAYER_STAMP == 2600
SECTOR_RING_RATIO == 340
SECTOR_ROT_SPEED == 60

\* ------------------------------------------------------------------------
\* Fixed point
\* ------------------------------------------------------------------------
PX == 10
FP == 1000
ANGLE_STEPS == 24

\* ------------------------------------------------------------------------
\* Bounds of the model
\* ------------------------------------------------------------------------
\* frames explored from an initial state
MaxTicks == 2

\* the low-health runs: followed while hp <= LiveHp (1/1000) and
\* elapsed < LiveEnd (ms)
LiveHp == 400
LiveEnd == 12500

\* ------------------------------------------------------------------------
\* MODULE 5: Helpers
\* ------------------------------------------------------------------------
Abs(a) == IF a < 0 THEN -a ELSE a
Min(a, b) == IF a < b THEN a ELSE b
Max(a, b) == IF a > b THEN a ELSE b
Sign(a) == IF a > 0 THEN 1 ELSE IF a < 0 THEN -1 ELSE 0

\* a / b for b > 0, truncated toward zero
Trunc(a, b) == IF a >= 0 THEN a \div b ELSE -((-a) \div b)

\* Math.floor(a / b) for b > 0
Floor(a, b) == a \div b

\* Math.ceil(a / b) for a >= 0, b > 0
Ceil(a, b) == (a + b - 1) \div b

\* a * b / FP: the product of a quantity and a per-mille factor
Mul(a, b) == Trunc(a * b, FP)

RECURSIVE SqrtIter(_, _, _)
SqrtIter(n, lo, hi) ==
    IF lo >= hi THEN lo
    ELSE LET mid == (lo + hi + 1) \div 2
         IN  IF mid * mid <= n THEN SqrtIter(n, mid, hi)
                               ELSE SqrtIter(n, lo, mid - 1)

\* floor of the square root
ISqrt(n) == SqrtIter(n, 0, 46340)

\* Math.hypot(x, y)
Hypot(x, y) == ISqrt(x * x + y * y)

\* l || one : a zero length counts as length one
OrOne(l, one) == IF l = 0 THEN one ELSE l

\* Math.hypot(x, y) || one
HypotOr(x, y, one) == OrOne(Hypot(x, y), one)

\* (x, y) / l as a per-mille vector {x, y}
Unit(x, y, l) == [x |-> Trunc(x * FP, l), y |-> Trunc(y * FP, l)]

\* norm(x, y): (x, y) over its length, a zero length counting as `one`
Norm(x, y, one) == Unit(x, y, HypotOr(x, y, one))

clamp(v, min, max) == Max(min, Min(max, v))

rectsOverlap(a, b) ==
    /\ a.x < b.x + b.w
    /\ a.x + a.w > b.x
    /\ a.y < b.y + b.h
    /\ a.y + a.h > b.y

\* cos of the angle step k, per mille (steps of 15 degrees)
CosTab ==
    << 1000,  966,  866,  707,  500,  259,
          0, -259, -500, -707, -866, -966,
      -1000, -966, -866, -707, -500, -259,
          0,  259,  500,  707,  866,  966 >>

AngleMod(k) == k % ANGLE_STEPS
Cos(k) == CosTab[AngleMod(k) + 1]
Sin(k) == CosTab[AngleMod(k + 3 * (ANGLE_STEPS \div 4)) + 1]

\* ------------------------------------------------------------------------
\* MODULE 3: State
\* ------------------------------------------------------------------------
VARIABLES
    keys,      \* the Set of pressed directions ('up', ..., 'space')
    player,    \* the player rectangle {x, y, w, h, speed}
    score,
    hp,
    alive,
    elapsed,   \* ms since the run started
    targets,   \* the active cubes, in the order of the array
    sect,      \* _SECT: {assigned}
    heat,      \* _HEAT: {grid, cols, rows, lastW, lastH}; cols = 0: grid is null
    lastSrc,   \* what `last` holds: "now" (performance.now() at boot) or "frame"
    nextId,    \* the identity the next created target object gets
    ticks,     \* frames run since the initial state
    ev,        \* what the last call of update did
    canvas     \* the canvas element: {width, height} in px

vars == << keys, player, score, hp, alive, elapsed, targets, sect, heat,
           lastSrc, nextId, ticks, ev, canvas >>

\* the key codes pressed and released
Codes == {"KeyD", "ArrowRight", "Space", "KeyQ"}

\* the two values, per mille, one target's tick draws its Math.random()
\* calls from
RandPairs == {<<0, 999>>, <<999, 0>>}

\* the pairs of Math.random() values makeTarget draws (x, y)
SpawnRand == {<<200, 250>>, <<999, 0>>}

\* t - last of a frame, in ms: the first frame's `last` is performance.now()
\* at boot, which the first frame's timestamp may precede; later frames
\* follow each other
FirstDeltas == {-16, 0, 16}
Deltas == {16, 50}

\* performance.now()/1000 - _SECT.t0, in seconds
NowSecs == {0, 22}

\* ------------------------------------------------------------------------
\* MODULE 4: Input
\* ------------------------------------------------------------------------
mapKey(code) ==
    CASE code \in {"KeyW", "ArrowUp"} -> "up"
      [] code \in {"KeyS", "ArrowDown"} -> "down"
      [] code \in {"KeyA", "ArrowLeft"} -> "left"
      [] code \in {"KeyD", "ArrowRight"} -> "right"
      [] code = "Space" -> "space"
      [] OTHER -> "null"

\* the direction of the pressed keys: {dx, dy}, each -1, 0 or 1
keyDir(ks) ==
    [ dx |-> (IF "right" \in ks THEN 1 ELSE 0) - (IF "left" \in ks THEN 1 ELSE 0),
      dy |-> (IF "down" \in ks THEN 1 ELSE 0) - (IF "up" \in ks THEN 1 ELSE 0) ]

\* if (dx || dy) { l = Math.hypot(dx, dy) || 1; dx /= l; dy /= l }, per mille
normDir(d) ==
    IF d.dx # 0 \/ d.dy # 0
    THEN [ dx |-> Norm(d.dx * FP, d.dy * FP, FP).x,
           dy |-> Norm(d.dx * FP, d.dy * FP, FP).y ]
    ELSE [dx |-> 0, dy |-> 0]

readInput(ks) == normDir(keyDir(ks))

\* ------------------------------------------------------------------------
\* MODULE 6: Spawning & Cap (time-based)
\* ------------------------------------------------------------------------
\* t._ai before aiInit: the object has no _ai yet
NoAI ==
    [ init |-> FALSE,
      wanderTimer |-> 0, wanderPhase |-> 0,
      lastSteerX |-> 0, lastSteerY |-> 0,
      jukeTime |-> 0, jukeCool |-> 0, jukeDirX |-> 0, jukeDirY |-> 0,
      patrolTime |-> 0, patrolCool |-> 0, patrolDirX |-> 0, patrolDirY |-> 0,
      sectorIndex |-> -1 ]

NewTarget(x, y, id) ==
    [ id |-> id, x |-> x, y |-> y,
      w |-> TARGET_SIZE * PX, h |-> TARGET_SIZE * PX,
      vx |-> 0, vy |-> 0, ai |-> NoAI ]

\* makeTarget(): x = Math.random() * (canvas.width - w), y likewise
makeTarget(r) ==
    NewTarget(Mul((canvas.width - TARGET_SIZE) * PX, r[1]),
              Mul((canvas.height - TARGET_SIZE) * PX, r[2]), 0)

SpawnFallback ==
    NewTarget((canvas.width - TARGET_SIZE - FALLBACK_INSET) * PX,
              (canvas.height - TARGET_SIZE - FALLBACK_INSET) * PX, 0)

\* variant: the first sample is returned untested
spawnFrom_untested(p, i) ==
    {[t |-> makeTarget(r), tries |-> i + 1, fallback |-> FALSE] : r \in SpawnRand}

\* spawnAvoidingPlayer() from attempt i on: the ways it can return, each
\* with the target t returned, the number of makeTarget() calls made
\* (tries) and whether t is the fallback object
RECURSIVE spawnFrom(_, _)
spawnFrom(p, i) ==
    IF i >= SPAWN_TRIES
    THEN {[t |-> SpawnFallback, tries |-> i, fallback |-> TRUE]}
    ELSE LET made == {makeTarget(r) : r \in SpawnRand}
         IN  {[t |-> t, tries |-> i + 1, fallback |-> FALSE] :
                  t \in {m \in made : ~rectsOverlap(p, m)}}
               \cup (IF \E t \in made : rectsOverlap(p, t)
                     THEN spawnFrom(p, i + 1) ELSE {})

spawnAvoidingPlayer(p) == {s.t : s \in spawnFrom(p, 0)}

\* variant: the quotient rounded up
targetCap_up(e) == 1 + Ceil(e, TIME_STEP_SEC * 1000)

targetCap(e) == 1 + Floor(e, TIME_STEP_SEC * 1000)

\* variant: an if in place of the while, pushing at most one target
refill_once(ts, cap, p, id0) ==
    LET n == IF Len(ts) < cap THEN 1 ELSE 0
    IN  { ts \o [i \in 1..n |-> [pick[i] EXCEPT !.id = id0 + i - 1]] :
            pick \in [1..n -> spawnAvoidingPlayer(p)] }

\* while (targets.length < cap) targets.push(spawnAvoidingPlayer()):
\* the arrays the loop can leave, the new objects numbered from id0
refill(ts, cap, p, id0) ==
    LET n == Max(0, cap - Len(ts))
    IN  { ts \o [i \in 1..n |-> [pick[i] EXCEPT !.id = id0 + i - 1]] :
            pick \in [1..n -> spawnAvoidingPlayer(p)] }

\* ------------------------------------------------------------------------
\* MODULE 7.2: AI_STATE
\* ------------------------------------------------------------------------
\* aiInit(t): r are the two Math.random() values it draws
aiInit(t, r) ==
    IF t.ai.init THEN t
    ELSE [t EXCEPT !.ai = [NoAI EXCEPT !.init = TRUE,
                                       !.wanderTimer = Mul(WANDER_T, r[1]),
                                       !.wanderPhase = Trunc(r[2] * ANGLE_STEPS, FP)]]

centerX(a) == a.x + a.w \div 2
centerY(a) == a.y + a.h \div 2

\* the predicted player point and the player's heading, from the direction di
predictFrom(p, di) ==
    [ px |-> centerX(p) + Trunc(di.dx * p.speed * LEAD, FP * 1000),
      py |-> centerY(p) + Trunc(di.dy * p.speed * LEAD, FP * 1000),
      hx |-> di.dx, hy |-> di.dy,
      hv |-> Hypot(di.dx, di.dy) ]

aiPredictPlayer(p, ks) == predictFrom(p, readInput(ks))

aiNearEdges(t) ==
    [ L |-> t.x < CORNER_NEAR_EDGE * PX,
      R |-> t.x > canvas.width * PX - t.w - CORNER_NEAR_EDGE * PX,
      T |-> t.y < CORNER_NEAR_EDGE * PX,
      B |-> t.y > canvas.height * PX - t.h - CORNER_NEAR_EDGE * PX,
      inCorner |-> /\ \/ t.x < CORNER_NEAR_EDGE * PX
                      \/ t.x > canvas.width * PX - t.w - CORNER_NEAR_EDGE * PX
                   /\ \/ t.y < CORNER_NEAR_EDGE * PX
                      \/ t.y > canvas.height * PX - t.h - CORNER_NEAR_EDGE * PX ]

\* the sum of f over the indices in S
RECURSIVE SumOver(_, _)
SumOver(f, S) ==
    IF S = {} THEN 0
    ELSE LET i == CHOOSE j \in S : TRUE IN f[i] + SumOver(f, S \ {i})

\* the indices of the array ts other than i (o === t is skipped)
Others(ts, i) == (1..Len(ts)) \ {i}

\* ------------------------------------------------------------------------
\* MODULE 7.3: AI_STEER_BASE
\* ------------------------------------------------------------------------
\* one other target's push on a target: (dx, dy) from it, at distance dist
sepScaled(dx, dy, dist) ==
    IF dist > 0 /\ dist < SEP_RADIUS * PX
    THEN [ x |-> Mul(Trunc(dx * FP, dist),
                     Trunc((SEP_RADIUS * PX - dist) * FP, SEP_RADIUS * PX)),
           y |-> Mul(Trunc(dy * FP, dist),
                     Trunc((SEP_RADIUS * PX - dist) * FP, SEP_RADIUS * PX)) ]
    ELSE [x |-> 0, y |-> 0]

sepTerm(t, o) ==
    sepScaled(centerX(t) - centerX(o), centerY(t) - centerY(o),
              Hypot(centerX(t) - centerX(o), centerY(t) - centerY(o)))

\* variant: the summed push is scaled by SEP_FORCE as it is
sepForce_raw(sepX, sepY) == [x |-> Mul(sepX, SEP_FORCE), y |-> Mul(sepY, SEP_FORCE)]

\* if (sepX || sepY): the summed push, normalised and scaled by SEP_FORCE
sepForce(sepX, sepY) ==
    IF sepX # 0 \/ sepY # 0
    THEN [ x |-> Mul(Norm(sepX, sepY, FP).x, SEP_FORCE),
           y |-> Mul(Norm(sepX, sepY, FP).y, SEP_FORCE) ]
    ELSE [x |-> 0, y |-> 0]

\* the separation term of target i among ts: {x, y}
separation(ts, i) ==
    sepForce(SumOver([j \in Others(ts, i) |-> sepTerm(ts[i], ts[j]).x], Others(ts, i)),
             SumOver([j \in Others(ts, i) |-> sepTerm(ts[i], ts[j]).y], Others(ts, i)))

\* wall repel + slide of target t against the predicted player point
wallTerm(t, px, py) ==
    [ x |-> (IF t.x < WALL_REPEL_MARGIN * PX
             THEN (IF centerX(t) > px THEN 400 ELSE 200) ELSE 0)
          + (IF t.x > canvas.width * PX - t.w - WALL_REPEL_MARGIN * PX
             THEN (IF centerX(t) < px THEN -400 ELSE -200) ELSE 0)
          + (IF aiNearEdges(t).T \/ aiNearEdges(t).B
             THEN (IF centerX(t) > px THEN 1 ELSE -1) * SLIDE_FORCE ELSE 0),
      y |-> (IF t.y < WALL_REPEL_MARGIN * PX
             THEN (IF centerY(t) > py THEN 400 ELSE 200) ELSE 0)
          + (IF t.y > canvas.height * PX - t.h - WALL_REPEL_MARGIN * PX
             THEN (IF centerY(t) < py THEN -400 ELSE -200) ELSE 0)
          + (IF aiNearEdges(t).L \/ aiNearEdges(t).R
             THEN (IF centerY(t) > py THEN 1 ELSE -1) * SLIDE_FORCE ELSE 0) ]

\* how far inside the orbit distance the player is, per mille
orbitNear(d) ==
    Min(FP, Max(0, Trunc((ORBIT_DIST * PX - d) * FP, ORBIT_DIST * PX)))

\* flee/orbit + separation + walls, from the vector away from the player
\* and the nearness
steerSum(t, d, away, near, sep, wall) ==
    [ sx |-> Mul(away.x, 750 + Mul(250, near)) + Mul(-away.y, Mul(ORBIT_FORCE, near))
               + sep.x + wall.x,
      sy |-> Mul(away.y, 750 + Mul(250, near)) + Mul(away.x, Mul(ORBIT_FORCE, near))
               + sep.y + wall.y,
      d |-> d, cx |-> centerX(t), cy |-> centerY(t) ]

steerAt(ts, i, pred, d) ==
    steerSum(ts[i], d,
             Unit(-(pred.px - centerX(ts[i])), -(pred.py - centerY(ts[i])), d),
             orbitNear(d), separation(ts, i), wallTerm(ts[i], pred.px, pred.py))

aiSteerBase(ts, i, pred) ==
    steerAt(ts, i, pred,
            HypotOr(pred.px - centerX(ts[i]), pred.py - centerY(ts[i]), PX))

\* A steering stage works on the pair tb = [t |-> target, base |-> base]:
\* the code's stages mutate both the target's _ai and the base object.
addSteer(tb, ax, ay) ==
    [tb EXCEPT !.base.sx = @ + ax, !.base.sy = @ + ay]

\* ------------------------------------------------------------------------
\* MODULE 7.4: AI_JUKE
\* ------------------------------------------------------------------------
jukeTimers(s, dt) ==
    [s EXCEPT !.jukeCool = Max(0, @ - dt), !.jukeTime = Max(0, @ - dt)]

\* cos(theta) between the player's heading and the line from the player's
\* centre to the target's centre, per mille
jukeDot(base, pred, p) ==
    Mul(Norm(base.cx - centerX(p), base.cy - centerY(p), PX).x,
        Norm(pred.hx, pred.hy, FP).x)
  + Mul(Norm(base.cx - centerX(p), base.cy - centerY(p), PX).y,
        Norm(pred.hx, pred.hy, FP).y)

\* squared distance from the predicted point after 40 px along (lx, ly)
jukeReach(base, pred, lx, ly) ==
    (base.cx + Mul(40 * PX, lx) - pred.px) * (base.cx + Mul(40 * PX, lx) - pred.px)
  + (base.cy + Mul(40 * PX, ly) - pred.py) * (base.cy + Mul(40 * PX, ly) - pred.py)

\* left or right of the away vector, whichever ends farther
jukePick(base, pred, away) ==
    IF jukeReach(base, pred, -away.y, away.x) > jukeReach(base, pred, away.y, -away.x)
    THEN [x |-> -away.y, y |-> away.x]
    ELSE [x |-> away.y, y |-> -away.x]

\* variant: the burst goes along the away vector
jukeDir_away(base, pred) == Norm(base.cx - pred.px, base.cy - pred.py, PX)

jukeDir(base, pred) ==
    jukePick(base, pred, Norm(base.cx - pred.px, base.cy - pred.py, PX))

\* variant: the cooldown is the jitter alone
jukeStart_jitterOnly(s, dir, r) ==
    [s EXCEPT !.jukeDirX = dir.x, !.jukeDirY = dir.y,
              !.jukeTime = JUKE_DURATION,
              !.jukeCool = Mul(400, r)]

jukeStart(s, dir, r) ==
    [s EXCEPT !.jukeDirX = dir.x, !.jukeDirY = dir.y,
              !.jukeTime = JUKE_DURATION,
              !.jukeCool = JUKE_COOLDOWN + Mul(400, r)]

\* variant: a burst starts whatever the player's heading points at
jukeStep_anyAngle(tb, pred, p, r) ==
    IF tb.t.ai.jukeTime > 0
    THEN addSteer(tb, Mul(tb.t.ai.jukeDirX, JUKE_PUSH), Mul(tb.t.ai.jukeDirY, JUKE_PUSH))
    ELSE IF /\ tb.base.d < JUKE_CLOSE_DIST * PX
            /\ tb.t.ai.jukeCool = 0
            /\ pred.hv > 300
         THEN [tb EXCEPT !.t.ai = jukeStart(@, jukeDir(tb.base, pred), r)]
         ELSE tb

jukeStep(tb, pred, p, r) ==
    IF tb.t.ai.jukeTime > 0
    THEN addSteer(tb, Mul(tb.t.ai.jukeDirX, JUKE_PUSH), Mul(tb.t.ai.jukeDirY, JUKE_PUSH))
    ELSE IF /\ tb.base.d < JUKE_CLOSE_DIST * PX
            /\ tb.t.ai.jukeCool = 0
            /\ pred.hv > 300
            /\ jukeDot(tb.base, pred, p) > JUKE_TRIGGER_ANGLE
         THEN [tb EXCEPT !.t.ai = jukeStart(@, jukeDir(tb.base, pred), r)]
         ELSE tb

aiApplyJuke(tb, pred, dt, p, r) ==
    jukeStep([tb EXCEPT !.t.ai = jukeTimers(@, dt)], pred, p, r)

\* ------------------------------------------------------------------------
\* MODULE 7.5: AI_PATROL
\* ------------------------------------------------------------------------
patrolTimers(s, dt) ==
    [s EXCEPT !.patrolCool = Max(0, @ - dt), !.patrolTime = Max(0, @ - dt)]

onEdge(t) ==
    \/ aiNearEdges(t).inCorner
    \/ aiNearEdges(t).L \/ aiNearEdges(t).R
    \/ aiNearEdges(t).T \/ aiNearEdges(t).B

\* variant: the weights of the two parts exchanged
patrolMix_swapped(base, pred, tang) ==
    [ x |-> 250 * Sign(Min(canvas.width * PX - SAFE_BAND * PX,
                           Max(SAFE_BAND * PX, base.cx)) - base.cx)
            + Mul(750, tang.x),
      y |-> 250 * Sign(Min(canvas.height * PX - SAFE_BAND * PX,
                           Max(SAFE_BAND * PX, base.cy)) - base.cy)
            + Mul(750, tang.y) ]

\* 0.75 * sign toward the safe band + 0.25 * unit tangent, per mille
patrolMix(base, pred, tang) ==
    [ x |-> 750 * Sign(Min(canvas.width * PX - SAFE_BAND * PX,
                           Max(SAFE_BAND * PX, base.cx)) - base.cx)
            + Mul(250, tang.x),
      y |-> 750 * Sign(Min(canvas.height * PX - SAFE_BAND * PX,
                           Max(SAFE_BAND * PX, base.cy)) - base.cy)
            + Mul(250, tang.y) ]

patrolNorm(mix) == Norm(mix.x, mix.y, FP)

patrolDir(base, pred) ==
    patrolNorm(patrolMix(base, pred,
                         Norm(-(pred.py - base.cy), pred.px - base.cx, PX)))

patrolStart(s, dir, r) ==
    [s EXCEPT !.patrolDirX = dir.x, !.patrolDirY = dir.y,
              !.patrolTime = PATROL_TIME,
              !.patrolCool = PATROL_COOLDOWN + Mul(500, r)]

\* variant: a patrol starts anywhere in the arena
patrolStep_anywhere(tb, pred, r) ==
    IF tb.t.ai.patrolTime > 0
    THEN addSteer(tb, Mul(tb.t.ai.patrolDirX, PATROL_PUSH),
                      Mul(tb.t.ai.patrolDirY, PATROL_PUSH))
    ELSE IF /\ tb.base.d > Mul(ORBIT_DIST * PX, 900)
            /\ tb.t.ai.patrolCool = 0
         THEN [tb EXCEPT !.t.ai = patrolStart(@, patrolDir(tb.base, pred), r)]
         ELSE tb

patrolStep(tb, pred, r) ==
    IF tb.t.ai.patrolTime > 0
    THEN addSteer(tb, Mul(tb.t.ai.patrolDirX, PATROL_PUSH),
                      Mul(tb.t.ai.patrolDirY, PATROL_PUSH))
    ELSE IF /\ tb.base.d > Mul(ORBIT_DIST * PX, 900)
            /\ onEdge(tb.t)
            /\ tb.t.ai.patrolCool = 0
         THEN [tb EXCEPT !.t.ai = patrolStart(@, patrolDir(tb.base, pred), r)]
         ELSE tb

aiApplyPatrol(tb, pred, dt, r) ==
    patrolStep([tb EXCEPT !.t.ai = patrolTimers(@, dt)], pred, r)

\* ------------------------------------------------------------------------
\* MODULE 7.6: AI_INTEGRATE
\* ------------------------------------------------------------------------
\* s.wanderTimer -= dt, re-rolled when it runs out
wanderTick(s, dt, r) ==
    IF s.wanderTimer - dt <= 0
    THEN [s EXCEPT !.wanderTimer = WANDER_T + Mul(600, r[1]),
                   !.wanderPhase = @ + Trunc((r[2] - 500) * 11 * ANGLE_STEPS, 62832)]
    ELSE [s EXCEPT !.wanderTimer = @ - dt]

wanderMag(d) == IF d > ORBIT_DIST * PX THEN WANDER_MAG_FAR ELSE WANDER_MAG_NEAR

wanderSteer(tb, r) ==
    addSteer(tb,
             Mul(Cos(tb.t.ai.wanderPhase), wanderMag(tb.base.d))
                 + Mul(r[1] - 500, AI_JITTER),
             Mul(Sin(tb.t.ai.wanderPhase), wanderMag(tb.base.d))
                 + Mul(r[2] - 500, AI_JITTER))

\* variant: the normalised steer is added at full weight
smoothWith_full(t, a) ==
    [t EXCEPT !.ai.lastSteerX = a.x + Mul(@, SMOOTH),
              !.ai.lastSteerY = a.y + Mul(@, SMOOTH)]

\* the normalised steer a blended with the last steer, which it replaces
smoothWith(t, a) ==
    [t EXCEPT !.ai.lastSteerX = Mul(a.x, FP - SMOOTH) + Mul(@, SMOOTH),
              !.ai.lastSteerY = Mul(a.y, FP - SMOOTH) + Mul(@, SMOOTH)]

smoothSteer(tb) == smoothWith(tb.t, Norm(tb.base.sx, tb.base.sy, FP))

\* t.vx += ax * CFG.TARGET_MAX_ACCEL * dt
accelerate(t, dt) ==
    [t EXCEPT !.vx = @ + Trunc(t.ai.lastSteerX * TARGET_MAX_ACCEL * PX * dt, FP * 1000),
              !.vy = @ + Trunc(t.ai.lastSteerY * TARGET_MAX_ACCEL * PX * dt, FP * 1000)]

\* CFG.TARGET_MAX_SPEED * panic, panic from the distance d of the base
maxV(d) ==
    Mul(TARGET_MAX_SPEED * PX, IF d < PANIC_DIST * PX THEN PANIC_SPEED_UP ELSE FP)

\* variant: no clamp
clampTo_none(t, vL, cap) == t

clampTo(t, vL, cap) ==
    IF vL > cap
    THEN [t EXCEPT !.vx = Trunc(t.vx * cap, vL), !.vy = Trunc(t.vy * cap, vL)]
    ELSE t

clampSpeed(t, cap) == clampTo(t, HypotOr(t.vx, t.vy, PX), cap)

move(t, dt) ==
    [t EXCEPT !.x = @ + Trunc(t.vx * dt, 1000), !.y = @ + Trunc(t.vy * dt, 1000)]

bounceLeft(t) ==
    IF t.x < 0 THEN [t EXCEPT !.x = 0, !.vx = Mul(Abs(@), RESTITUTION)] ELSE t
bounceTop(t) ==
    IF t.y < 0 THEN [t EXCEPT !.y = 0, !.vy = Mul(Abs(@), RESTITUTION)] ELSE t
\* variant: the velocity is reflected, the position is left where it is
bounceRight_open(t) ==
    IF t.x > canvas.width * PX - t.w
    THEN [t EXCEPT !.vx = -Mul(Abs(@), RESTITUTION)] ELSE t

\* variant: the reflection keeps the whole speed
bounceRight_elastic(t) ==
    IF t.x > canvas.width * PX - t.w
    THEN [t EXCEPT !.x = canvas.width * PX - t.w, !.vx = -Abs(@)] ELSE t

bounceRight(t) ==
    IF t.x > canvas.width * PX - t.w
    THEN [t EXCEPT !.x = canvas.width * PX - t.w, !.vx = -Mul(Abs(@), RESTITUTION)] ELSE t
bounceBottom(t) ==
    IF t.y > canvas.height * PX - t.h
    THEN [t EXCEPT !.y = canvas.height * PX - t.h, !.vy = -Mul(Abs(@), RESTITUTION)] ELSE t

bounce(t) == bounceBottom(bounceRight(bounceTop(bounceLeft(t))))

\* the target once its position has advanced (t.x += t.vx * dt), before
\* the bounce on the bounds
advance(tb, dt, r) ==
    move(clampSpeed(accelerate(smoothSteer(wanderSteer(
        [tb EXCEPT !.t.ai = wanderTick(@, dt, r)], r)), dt),
        maxV(tb.base.d)), dt)

\* the target after the step
aiIntegrate(tb, dt, r) == bounce(advance(tb, dt, r))

\* ------------------------------------------------------------------------
\* MODULE 7.9: SECTORS
\* ------------------------------------------------------------------------
\* the loop body of aiAssignSectors for the target at index i (1-based)
assignOne(t, i, r) == [aiInit(t, r) EXCEPT !.ai.sectorIndex = i - 1]

\* the targets after aiAssignSectors; sc is _SECT before the call
aiAssignSectors(sc, ts, rnd) ==
    IF sc.assigned THEN ts
    ELSE [i \in 1..Len(ts) |-> assignOne(ts[i], i, rnd[i])]

\* t._ai?.sectorIndex ?? 0
sectorIdx(t) == IF t.ai.init /\ t.ai.sectorIndex >= 0 THEN t.ai.sectorIndex ELSE 0

\* the rotation after `now` seconds, in angle steps
sectorRot(now) == Trunc(now * SECTOR_ROT_SPEED * ANGLE_STEPS, 6283)

sectorPointAt(rot) ==
    [ x |-> (canvas.width * PX) \div 2
              + Mul(Cos(rot), Mul(Min(canvas.width, canvas.height) * PX, SECTOR_RING_RATIO)),
      y |-> (canvas.height * PX) \div 2
              + Mul(Sin(rot), Mul(Min(canvas.width, canvas.height) * PX, SECTOR_RING_RATIO)) ]

\* n is targets.length at the time of the call
aiSectorPointFor(t, n, now) ==
    sectorPointAt(Trunc(sectorIdx(t) * ANGLE_STEPS, Max(1, n)) + sectorRot(now))

sectorPull(tb, u) == addSteer(tb, Mul(u.x, SECTOR_STICK), Mul(u.y, SECTOR_STICK))

sectorToward(tb, pt) ==
    sectorPull(tb, Norm(pt.x - centerX(tb.t), pt.y - centerY(tb.t), PX))

\* variant: the pull is added at any distance
aiSectorBias_always(tb, playerFar, n, now) ==
    sectorToward(tb, aiSectorPointFor(tb.t, n, now))

aiSectorBias(tb, playerFar, n, now) ==
    IF ~playerFar THEN tb ELSE sectorToward(tb, aiSectorPointFor(tb.t, n, now))

\* ------------------------------------------------------------------------
\* MODULE 7.10: HEATMAP
\* ------------------------------------------------------------------------
\* _HEAT before the first heatmapInit: grid null
NoHeat == [cols |-> 0, rows |-> 0, lastW |-> 0, lastH |-> 0, grid |-> << >>]

heatmapInit ==
    [ cols |-> Ceil(canvas.width, HEATMAP_CELL), rows |-> Ceil(canvas.height, HEATMAP_CELL),
      lastW |-> canvas.width, lastH |-> canvas.height,
      grid |-> [k \in 1..(Ceil(canvas.width, HEATMAP_CELL) * Ceil(canvas.height, HEATMAP_CELL)) |-> 0] ]

heatmapEnsure(h) ==
    IF h.cols = 0 \/ h.lastW # canvas.width \/ h.lastH # canvas.height THEN heatmapInit ELSE h

\* the index of the cell of (x, y), counted from 1
heatmapIdx(h, x, y) ==
    Min(h.rows - 1, Max(0, Floor(y, HEATMAP_CELL * PX))) * h.cols
  + Min(h.cols - 1, Max(0, Floor(x, HEATMAP_CELL * PX))) + 1

\* variant: the decay subtracts a fixed amount
heatmapStamp_linear(h, k) ==
    [h EXCEPT !.grid = [j \in 1..Len(h.grid) |->
        h.grid[j] - (FP - HEATMAP_DECAY) + (IF j = k THEN HEATMAP_PLAYER_STAMP ELSE 0)]]

\* variant: the cell k is stamped before the decay
heatmapStamp_stampFirst(h, k) ==
    [h EXCEPT !.grid = [j \in 1..Len(h.grid) |->
        Mul(h.grid[j] + (IF j = k THEN HEATMAP_PLAYER_STAMP ELSE 0), HEATMAP_DECAY)]]

\* variant: the cell k is stamped and nothing decays
heatmapStamp_noDecay(h, k) ==
    [h EXCEPT !.grid = [j \in 1..Len(h.grid) |->
        h.grid[j] + (IF j = k THEN HEATMAP_PLAYER_STAMP ELSE 0)]]

\* decay every cell, then stamp the cell k
heatmapStamp(h, k) ==
    [h EXCEPT !.grid = [j \in 1..Len(h.grid) |->
        Mul(h.grid[j], HEATMAP_DECAY) + (IF j = k THEN HEATMAP_PLAYER_STAMP ELSE 0)]]

heatmapDecayStamp(h, p) == heatmapStamp(h, heatmapIdx(h, centerX(p), centerY(p)))

heatmapTick(h, p) == heatmapDecayStamp(heatmapEnsure(h), p)

\* _HEAT.grid[heatmapIdx(x, y)] || 0
heatmapSample(h, x, y) ==
    IF h.cols = 0 \/ heatmapIdx(h, x, y) \notin 1..Len(h.grid) THEN 0
    ELSE h.grid[heatmapIdx(h, x, y)]

\* sX and sY of aiHeatmapBias; the second sample is taken at (cy + 24, cx)
heatGradient(t, h) ==
    [ sX |-> heatmapSample(h, centerX(t) + 24 * PX, centerY(t))
              - heatmapSample(h, centerX(t) - 24 * PX, centerY(t)),
      sY |-> heatmapSample(h, centerY(t) + 24 * PX, centerX(t)) ]

heatPush(tb, g) ==
    addSteer(tb, Trunc(-g.sX * 20 * HEATMAP_BIAS, FP * FP),
                 Trunc(-g.sY * 20 * HEATMAP_BIAS, FP * FP))

aiHeatmapBias(tb, h) ==
    IF h.cols = 0 THEN tb ELSE heatPush(tb, heatGradient(tb.t, h))

\* ------------------------------------------------------------------------
\* MODULE 7.11: DISPERSION
\* ------------------------------------------------------------------------
nearEdge(t) ==
    \/ t.x < DISPERSION_EDGE * PX
    \/ t.y < DISPERSION_EDGE * PX
    \/ t.x > canvas.width * PX - t.w - DISPERSION_EDGE * PX
    \/ t.y > canvas.height * PX - t.h - DISPERSION_EDGE * PX

\* minD === dLeft || minD === dRight: the closest edge is a vertical one
laneAlongY(t) ==
    Min(t.x, canvas.width * PX - (t.x + t.w)) <= Min(t.y, canvas.height * PX - (t.y + t.h))

\* radial spacing push of one neighbour at (dx, dy), distance dist
spaceScaled(dx, dy, dist) ==
    IF dist < DISPERSION_MIN_SPACING * PX
    THEN [ x |-> Mul(Trunc(dx * FP, OrOne(dist, PX)),
                     Trunc((DISPERSION_MIN_SPACING * PX - dist) * FP,
                           DISPERSION_MIN_SPACING * PX)),
           y |-> Mul(Trunc(dy * FP, OrOne(dist, PX)),
                     Trunc((DISPERSION_MIN_SPACING * PX - dist) * FP,
                           DISPERSION_MIN_SPACING * PX)) ]
    ELSE [x |-> 0, y |-> 0]

spaceTerm(t, o) ==
    spaceScaled(centerX(t) - centerX(o), centerY(t) - centerY(o),
                Hypot(centerX(t) - centerX(o), centerY(t) - centerY(o)))

\* Math.sign(along || (Math.random() - 0.5)) for a neighbour near an edge
fanSign(along, r) == Sign(IF along # 0 THEN along ELSE r - 500)

fanTerm(t, o, r) ==
    IF nearEdge(o)
    THEN fanSign(IF laneAlongY(t) THEN centerY(o) - centerY(t)
                                  ELSE centerX(o) - centerX(t), r)
    ELSE 0

\* the push from the summed spacing and the tangent count
dispersionPush(tb, spaceX, spaceY, tangentPush) ==
    addSteer(tb,
             spaceX + (IF laneAlongY(tb.t) THEN 0 ELSE tangentPush * DISPERSION_EDGE_FAN),
             spaceY + (IF laneAlongY(tb.t) THEN tangentPush * DISPERSION_EDGE_FAN ELSE 0))

aiApplyDispersion(tb, ts, i, r) ==
    IF ~nearEdge(tb.t) THEN tb
    ELSE dispersionPush(tb,
             SumOver([j \in Others(ts, i) |-> spaceTerm(tb.t, ts[j]).x], Others(ts, i)),
             SumOver([j \in Others(ts, i) |-> spaceTerm(tb.t, ts[j]).y], Others(ts, i)),
             SumOver([j \in Others(ts, i) |-> fanTerm(tb.t, ts[j], r)], Others(ts, i)))

\* ------------------------------------------------------------------------
\* MODULE 7.7 PATCH: UPDATE
\* ------------------------------------------------------------------------
\* The state a pass over the targets works on:
\*   targets, heat, sect, score : the program's variables
\*   updated : for each target updateTargetAI ran on, in order, its id,
\*             the distance d of its base (to the predicted player point),
\*             the distance dp of its centre to the player's centre, the
\*             length n of the targets array during the call, the target
\*             as advanced before the bounce (moved) and as the call left
\*             it (out), the target as the call found it, once aiInit has
\*             run (pre), the centres of the other targets of the array
\*             (peers), the separation term of its base (sep), and the
\*             steer after each stage (log)
\*   caught  : ids of the targets spliced out, in order
\*   heatTicks : the number of heatmapTick calls

\* aiInit(t); aiAssignSectors(); heatmapTick(dt) for the target at index i
prepare(ps, i, rnd, p) ==
    [ps EXCEPT !.targets = aiAssignSectors(ps.sect,
                               [ps.targets EXCEPT ![i] = aiInit(@, rnd[i])], rnd),
               !.sect = [assigned |-> TRUE],
               !.heat = heatmapTick(@, p),
               !.heatTicks = @ + 1]

\* the steer (sx, sy) of the base as a stage leaves it, kept in tb.log: in
\* order after aiSteerBase, aiHeatmapBias, aiApplyDispersion, aiSectorBias,
\* aiApplyJuke and aiApplyPatrol
logged(tb) == [tb EXCEPT !.log = Append(@, [sx |-> tb.base.sx, sy |-> tb.base.sy])]

\* the layers 7.10, 7.11, 7.9 on the base of target i
layers(ps, i, r, now, base) ==
    logged(aiSectorBias(
        logged(aiApplyDispersion(
            logged(aiHeatmapBias(
                logged([t |-> ps.targets[i], base |-> base, log |-> << >>]),
                ps.heat)),
            ps.targets, i, r[1])),
        base.d > Mul(ORBIT_DIST * PX, 900), Len(ps.targets), now))

\* the target i of ps replaced by `out`, the step's result, and the record
\* of the update appended
integrated(ps, i, p, tb, moved, out) ==
    [ps EXCEPT !.targets[i] = out,
               !.updated = Append(@,
                   [ id |-> ps.targets[i].id,
                     d  |-> tb.base.d,
                     dp |-> Hypot(centerX(ps.targets[i]) - centerX(p),
                                  centerY(ps.targets[i]) - centerY(p)),
                     n  |-> Len(ps.targets),
                     moved |-> moved,
                     out |-> out,
                     pre |-> ps.targets[i],
                     peers |-> [j \in Others(ps.targets, i) |->
                                  [ x |-> centerX(ps.targets[j]),
                                    y |-> centerY(ps.targets[j]) ]],
                     sep |-> separation(ps.targets, i),
                     log |-> tb.log ])]

\* aiIntegrate(t, base, dt) on the steered pair tb of target i
integrate(ps, i, dt, r, p, tb) ==
    integrated(ps, i, p, tb, advance(tb, dt, r), aiIntegrate(tb, dt, r))

\* the steering of target i from the prepared state
steer(ps, i, dt, r, now, pred, p) ==
    integrate(ps, i, dt, r, p,
        logged(aiApplyPatrol(
            logged(aiApplyJuke(layers(ps, i, r, now, aiSteerBase(ps.targets, i, pred)),
                               pred, dt, p, r[1])),
            pred, dt, r[2])))

updateTargetAI(ps, i, dt, rnd, now, ks, p) ==
    steer(prepare(ps, i, rnd, p), i, dt, rnd[i], now, aiPredictPlayer(p, ks), p)

\* ------------------------------------------------------------------------
\* MODULE 8: Update
\* ------------------------------------------------------------------------
\* variant: the element before index i is removed
splice_before(ts, i) == SubSeq(ts, 1, i - 2) \o SubSeq(ts, i, Len(ts))

\* targets.splice(i, 1)
splice(ts, i) == SubSeq(ts, 1, i - 1) \o SubSeq(ts, i + 1, Len(ts))

\* variant: a margin of half a target around the player also captures
collect_near(ps, i, p) ==
    IF rectsOverlap([p EXCEPT !.x = @ - (TARGET_SIZE * PX) \div 2,
                              !.y = @ - (TARGET_SIZE * PX) \div 2,
                              !.w = @ + TARGET_SIZE * PX,
                              !.h = @ + TARGET_SIZE * PX], ps.targets[i])
    THEN [ps EXCEPT !.score = @ + 1,
                    !.caught = Append(@, ps.targets[i].id),
                    !.targets = splice(@, i)]
    ELSE ps

\* if (rectsOverlap(player, t)) { score += 1; targets.splice(i, 1); }
collect(ps, i, p) ==
    IF rectsOverlap(p, ps.targets[i])
    THEN [ps EXCEPT !.score = @ + 1,
                    !.caught = Append(@, ps.targets[i].id),
                    !.targets = splice(@, i)]
    ELSE ps

\* for (let i = targets.length - 1; i >= 0; i--): the steps i, i-1, ..., 1
RECURSIVE pass(_, _, _, _, _, _, _)
pass(ps, i, dt, rnd, now, ks, p) ==
    IF i < 1 THEN ps
    ELSE pass(collect(updateTargetAI(ps, i, dt, rnd, now, ks, p), i, p),
              i - 1, dt, rnd, now, ks, p)

PassStart ==
    [ targets |-> targets, heat |-> heat, sect |-> sect, score |-> score,
      updated |-> << >>, caught |-> << >>, heatTicks |-> 0 ]

\* player movement, dt in ms
movePlayerBy(p, di, dt) ==
    [p EXCEPT !.x = clamp(@ + Trunc(di.dx * p.speed * dt, FP * 1000),
                          0, canvas.width * PX - p.w),
              !.y = clamp(@ + Trunc(di.dy * p.speed * dt, FP * 1000),
                          0, canvas.height * PX - p.h)]

movePlayer(p, ks, dt) == movePlayerBy(p, readInput(ks), dt)

\* variant: no drain
drain_none(h, dt) == h

\* hp -= CFG.HEALTH_DECAY_PER_SEC * dt; hp = clamp(hp, 0, CFG.HEALTH_MAX)
drain(h, dt) == clamp(h - HEALTH_DECAY_PER_SEC * dt, 0, HEALTH_MAX * 1000)

\* variant: no refill
regen_none(h) == h

\* hp = clamp(hp + CFG.HEALTH_REFILL_ON_CLEAR, 0, CFG.HEALTH_MAX)
regen(h) == clamp(h + HEALTH_REFILL_ON_CLEAR * 1000, 0, HEALTH_MAX * 1000)

ids(ts) == {ts[i].id : i \in 1..Len(ts)}

\* What the last call of update did, and the values it started from:
\*   kind : "none" (no call yet), "idle" and "restart" (a call in Game Over),
\*          "gameover" (the call that ended the run), "tick" (any other)
\*   fresh0 : the ids of the targets that had no _ai yet
\*   heat0 : the heat field the call found
\*   order0 : the ids of the targets in the order of the array the call found
\*   di0 : the direction readInput() gave the call
Event(kind, dt, ps, cleared, spawned) ==
    [ kind |-> kind, dt |-> dt,
      updated |-> ps.updated, caught |-> ps.caught, heatTicks |-> ps.heatTicks,
      cleared |-> cleared, spawned |-> spawned,
      hp0 |-> hp, elapsed0 |-> elapsed, score0 |-> score,
      ids0 |-> ids(targets),
      order0 |-> [i \in 1..Len(targets) |-> targets[i].id],
      assigned0 |-> sect.assigned, heat0 |-> heat, di0 |-> readInput(keys),
      fresh0 |-> {targets[i].id : i \in {j \in 1..Len(targets) : ~targets[j].ai.init}} ]

\* variant: the array is not emptied before the refill
restart_keep ==
    /\ score' = 0
    /\ hp' = HEALTH_MAX * 1000
    /\ alive' = TRUE
    /\ elapsed' = 0
    /\ targets' \in refill(targets, targetCap(0), player, nextId)
    /\ nextId' = nextId + (Len(targets') - Len(targets))
    /\ UNCHANGED <<player, sect, heat>>

restart ==
    /\ score' = 0
    /\ hp' = HEALTH_MAX * 1000
    /\ alive' = TRUE
    /\ elapsed' = 0
    /\ targets' \in refill(<< >>, targetCap(0), player, nextId)
    /\ nextId' = nextId + Len(targets')
    /\ UNCHANGED <<player, sect, heat>>

\* variant: ensureCap() at the end of every tick, cleared or not
settle_ensureCap(dt, p, ps) ==
    /\ player' = p
    /\ score' = ps.score
    /\ sect' = ps.sect
    /\ heat' = ps.heat
    /\ alive' = TRUE
    /\ hp' = (IF Len(ps.targets) = 0 THEN regen(drain(hp, dt)) ELSE drain(hp, dt))
    /\ targets' \in refill(ps.targets, targetCap(elapsed + dt), p, nextId)
    /\ nextId' = nextId + (Len(targets') - Len(ps.targets))
    /\ ev' = Event("tick", dt, ps, Len(ps.targets) = 0, ids(targets') \ ids(ps.targets))

\* the rest of update(dt) once the player has moved to p and the pass over
\* the targets has ended in ps
settle(dt, p, ps) ==
    /\ player' = p
    /\ score' = ps.score
    /\ sect' = ps.sect
    /\ heat' = ps.heat
    /\ alive' = TRUE
    /\ IF Len(ps.targets) = 0
       THEN /\ hp' = regen(drain(hp, dt))
            /\ targets' \in refill(ps.targets, targetCap(elapsed + dt), p, nextId)
       ELSE /\ hp' = drain(hp, dt)
            /\ targets' = ps.targets
    /\ nextId' = nextId + (Len(targets') - Len(ps.targets))
    /\ ev' = Event("tick", dt, ps, Len(ps.targets) = 0, ids(targets') \ ids(ps.targets))

\* variant: any held key restarts
whileDead_anyKey(dt) ==
    IF keys # {}
    THEN /\ restart
         /\ ev' = Event("restart", dt, PassStart, FALSE, ids(targets'))
    ELSE /\ UNCHANGED <<player, score, hp, alive, elapsed, targets, sect, heat, nextId>>
         /\ ev' = Event("idle", dt, PassStart, FALSE, {})

\* if (!alive) { if (keys.has('space')) restart(); return; }
whileDead(dt) ==
    IF "space" \in keys
    THEN /\ restart
         /\ ev' = Event("restart", dt, PassStart, FALSE, ids(targets'))
    ELSE /\ UNCHANGED <<player, score, hp, alive, elapsed, targets, sect, heat, nextId>>
         /\ ev' = Event("idle", dt, PassStart, FALSE, {})

\* update(dt): dt in ms, rnd the Math.random() values of each target's
\* step, now the time of the sector ring
update(dt, rnd, now) ==
    IF ~alive THEN whileDead(dt)
    ELSE /\ elapsed' = elapsed + dt
         /\ IF drain(hp, dt) <= 0
            THEN /\ hp' = drain(hp, dt)
                 /\ alive' = FALSE
                 /\ UNCHANGED <<player, score, targets, sect, heat, nextId>>
                 /\ ev' = Event("gameover", dt, PassStart, FALSE, {})
            ELSE \E p \in {movePlayer(player, keys, dt)} :
                   \E ps \in {pass(PassStart, Len(targets), dt, rnd, now, keys, p)} :
                     settle(dt, p, ps)

\* ------------------------------------------------------------------------
\* MODULE 10: Loop/Boot
\* ------------------------------------------------------------------------
\* frame(t) with delta = t - last in ms: dt = Math.min(0.033, (t - last)/1000)
frame(delta, rnd, now) ==
    /\ delta \in (IF lastSrc = "now" THEN FirstDeltas ELSE Deltas)
    /\ update(Min(DT_MAX, delta), rnd, now)
    /\ UNCHANGED canvas
    /\ lastSrc' = "frame"
    /\ UNCHANGED keys

\* a frame of the bounded exploration
Frame(delta, rnd, now) ==
    /\ ticks < MaxTicks
    /\ frame(delta, rnd, now)
    /\ ticks' = ticks + 1

\* a live run is followed while health is low, up to the time LiveEnd
Followed == alive /\ hp <= LiveHp /\ elapsed < LiveEnd

LiveFrame(delta, rnd, now) ==
    /\ Followed
    /\ frame(delta, rnd, now)
    /\ ticks' = ticks + 1

\* MODULE 4: the keydown and keyup listeners
KeyDown(code) ==
    /\ keys' = (IF mapKey(code) # "null" THEN keys \cup {mapKey(code)} ELSE keys)
    /\ UNCHANGED <<player, score, hp, alive, elapsed, targets, sect, heat,
                   lastSrc, nextId, ticks, ev, canvas>>

KeyUp(code) ==
    /\ keys' = (IF mapKey(code) # "null" THEN keys \ {mapKey(code)} ELSE keys)
    /\ UNCHANGED <<player, score, hp, alive, elapsed, targets, sect, heat,
                   lastSrc, nextId, ticks, ev, canvas>>

NewPlayer(x, y) ==
    [ x |-> x, y |-> y, w |-> PLAYER_SIZE * PX, h |-> PLAYER_SIZE * PX,
      speed |-> PLAYER_SPEED * PX ]

NoEvent ==
    [ kind |-> "none", dt |-> 0, updated |-> << >>, caught |-> << >>,
      heatTicks |-> 0, cleared |-> FALSE, spawned |-> {},
      hp0 |-> HEALTH_MAX * 1000, elapsed0 |-> 0, score0 |-> 0,
      ids0 |-> {}, order0 |-> << >>, assigned0 |-> FALSE, heat0 |-> NoHeat, di0 |-> readInput({}),
      fresh0 |-> {} ]

\* the state boot() leaves: restart() on the initial values of MODULE 3
Boot ==
    /\ keys = {}
    /\ player = NewPlayer(120 * PX, 120 * PX)
    /\ score = 0
    /\ hp = HEALTH_MAX * 1000
    /\ alive = TRUE
    /\ elapsed = 0
    /\ targets \in refill(<< >>, targetCap(0), NewPlayer(120 * PX, 120 * PX), 1)
    /\ nextId = 2
    /\ sect = [assigned |-> FALSE]
    /\ heat = NoHeat
    /\ lastSrc = "now"
    /\ ticks = 0
    /\ ev = NoEvent

\* A target some ticks into its life: _ai set, moving at (vx, vy), its last
\* steer (sx, sy); it was spawned after the sectors were assigned
Seasoned(id, x, y, vx, vy, sx, sy) ==
    [NewTarget(x, y, id) EXCEPT
        !.vx = vx, !.vy = vy,
        !.ai = [NoAI EXCEPT !.init = TRUE, !.wanderTimer = 450, !.wanderPhase = 2,
                            !.lastSteerX = sx, !.lastSteerY = sy]]

\* the target boot() spawned, after its first ticks: it holds sector 0
FirstTarget(x, y) ==
    [Seasoned(1, x, y, 0, 0, 1000, 0) EXCEPT !.ai.sectorIndex = 0]

\* the heat field of a player who came from the left and has stayed in the
\* cell of p for a hundred ticks: the cell left behind has decayed to 89
HeatAt(p) ==
    [heatmapInit EXCEPT
        !.grid[heatmapIdx(heatmapInit, centerX(p), centerY(p))] = 43300,
        !.grid[heatmapIdx(heatmapInit, centerX(p), centerY(p)) - 1] = 89]

\* a target against the right wall and the player half a pixel left of it
WallX == (CANVAS_W - TARGET_SIZE) * PX
Chaser == NewPlayer(WallX - PLAYER_SIZE * PX - 5, 200 * PX)

\* States of running sessions from which frames are explored:
\*   ClearAt(e) : elapsed e, one target left, the player about to catch it
ClearAt(e, sc, h) ==
    [ keys |-> {"right"}, player |-> Chaser, score |-> sc, hp |-> h,
      alive |-> TRUE, elapsed |-> e,
      targets |-> << Seasoned(40, WallX, 200 * PX, 0, 0, 1000, 0) >>,
      nextId |-> 41, ticks |-> MaxTicks - 1 ]

\*   PairScene : two targets, one of them about to be caught
PairScene ==
    [ keys |-> {"right"}, player |-> Chaser, score |-> 9, hp |-> 52000,
      alive |-> TRUE, elapsed |-> 45000,
      targets |-> << Seasoned(11, WallX, 200 * PX, 0, 0, 1000, 0),
                     Seasoned(12, 100 * PX, 300 * PX, -1200, 900, -800, 600) >>,
      nextId |-> 13, ticks |-> MaxTicks - 1 ]

\*   PairTurned : the same two targets, the one about to be caught last in
\*   the array, so that the pass reaches it first
PairTurned ==
    [PairScene EXCEPT !.targets = << PairScene.targets[2], PairScene.targets[1] >>]

\*   LowHpAt(e) : the first wave never cleared, health about to run out
LowHpAt(e) ==
    [ keys |-> {"right"}, player |-> Chaser, score |-> 0,
      hp |-> HEALTH_MAX * 1000 - HEALTH_DECAY_PER_SEC * e,
      alive |-> TRUE, elapsed |-> e,
      targets |-> << FirstTarget(WallX, 200 * PX) >>,
      nextId |-> 2, ticks |-> 0 ]

\*   Over : Game Over, Space held
Over ==
    [ keys |-> {"space"}, player |-> Chaser, score |-> 0, hp |-> 0,
      alive |-> FALSE, elapsed |-> 12508,
      targets |-> << FirstTarget(WallX, 200 * PX) >>,
      nextId |-> 2, ticks |-> 0 ]

\*   Chase : three targets at speed: one 190 px ahead of the running
\*   player, one about to hit the right wall, one fleeing 70 px from the player
Chase ==
    [ keys |-> {"right"}, player |-> NewPlayer(100 * PX, 200 * PX),
      score |-> 5, hp |-> 70000, alive |-> TRUE, elapsed |-> 65000,
      targets |-> << Seasoned(21, 290 * PX, 200 * PX, 2150, 0, 1000, 0),
                     Seasoned(22, WallX - 10, 400 * PX, 2200, 0, 1000, 0),
                     Seasoned(23, 30 * PX, 200 * PX, 0, -2464, 0, -1000) >>,
      nextId |-> 24, ticks |-> MaxTicks - 1 ]

\*   Approach : the first target at rest in the open, the player running
\*   at it from 220 px away
Approach ==
    [ keys |-> {"right"}, player |-> NewPlayer(100 * PX, 200 * PX),
      score |-> 0, hp |-> 80000, alive |-> TRUE, elapsed |-> 20000,
      targets |-> << FirstTarget(320 * PX, 200 * PX) >>,
      nextId |-> 2, ticks |-> MaxTicks - 1 ]

\*   Aslant : the same with the target 150 px to the right of the player
\*   and 25 px below
Aslant ==
    [Approach EXCEPT !.targets = << FirstTarget(250 * PX, 225 * PX) >>]

\*   Dodging : as Approach, two frames of 16 ms into the burst of the target
Dodging ==
    [Approach EXCEPT !.targets[1].ai.jukeTime = JUKE_DURATION - 32,
                     !.targets[1].ai.jukeCool = JUKE_COOLDOWN - 32,
                     !.targets[1].ai.jukeDirX = 0,
                     !.targets[1].ai.jukeDirY = -1000]

\*   Retreat : the first target at rest against the right wall, the player
\*   running away from it, 216 px off
Retreat ==
    [ keys |-> {"left"}, player |-> NewPlayer(400 * PX, 200 * PX),
      score |-> 0, hp |-> 80000, alive |-> TRUE, elapsed |-> 20000,
      targets |-> << FirstTarget(WallX, 200 * PX) >>,
      nextId |-> 2, ticks |-> MaxTicks - 1 ]

\*   Huddle : the player at rest, two targets at rest 60 px from each
\*   other, up and to the right of the player, and two more that have both
\*   come to rest in the bottom right corner, on the same position
Huddle ==
    [ keys |-> {}, player |-> NewPlayer(100 * PX, 200 * PX),
      score |-> 3, hp |-> 50000, alive |-> TRUE, elapsed |-> 95000,
      targets |-> << Seasoned(31, 180 * PX, 80 * PX, 0, 0, 1000, 0),
                     Seasoned(32, 240 * PX, 80 * PX, 0, 0, 1000, 0),
                     Seasoned(33, WallX, (CANVAS_H - TARGET_SIZE) * PX, 0, 0, 1000, 0),
                     Seasoned(34, WallX, (CANVAS_H - TARGET_SIZE) * PX, 0, 0, 1000, 0) >>,
      nextId |-> 35, ticks |-> MaxTicks - 1 ]

Scenes ==
    { ClearAt(29884, 7, 60000), ClearAt(29984, 7, 60000),
      ClearAt(89884, 15, 40000), ClearAt(89984, 15, 40000),
      PairScene, PairTurned, LowHpAt(12475), Over, Chase, Approach, Aslant,
      Dodging, Retreat, Huddle }

\* a running session in the state s: the sectors were assigned in its first
\* tick, the heat field exists, `last` holds a frame's timestamp
Resume(s) ==
    /\ keys = s.keys
    /\ player = s.player
    /\ score = s.score
    /\ hp = s.hp
    /\ alive = s.alive
    /\ elapsed = s.elapsed
    /\ targets = s.targets
    /\ nextId = s.nextId
    /\ sect = [assigned |-> TRUE]
    /\ heat = HeatAt(s.player)
    /\ lastSrc = "frame"
    /\ ticks = s.ticks
    /\ ev = NoEvent

\* the canvas of the page
Page == [width |-> CANVAS_W, height |-> CANVAS_H]

Init == canvas = Page /\ (Boot \/ \E s \in Scenes : Resume(s))

Next ==
    \/ \E code \in Codes : KeyDown(code)
    \/ \E code \in Codes : KeyUp(code)
    \/ \E delta \in FirstDeltas \cup Deltas, now \in NowSecs :
         \E rnd \in [1..Len(targets) -> RandPairs] : Frame(delta, rnd, now)

Spec == Init /\ [][Next]_vars

\* The script on a page whose canvas element has any size, 0 included:
\* the script reads canvas.width and canvas.height and never tests them.
Canvases ==
    { Page, [width |-> 0, height |-> CANVAS_H], [width |-> CANVAS_W, height |-> 0] }

SizedInit == canvas \in Canvases /\ Boot

SizedSpec == SizedInit /\ [][Next]_vars

\* The low-health runs: requestAnimationFrame(frame) is called at the end
\* of every frame, so frames keep arriving.
LiveInit ==
    /\ canvas = Page
    /\ \E e \in {12450, 12475}, ks \in {{}, {"right"}} :
          Resume([LowHpAt(e) EXCEPT !.keys = ks])

AnyLiveFrame ==
    \E delta \in Deltas, now \in NowSecs :
       \E rnd \in [1..Len(targets) -> RandPairs] : LiveFrame(delta, rnd, now)

LiveNext ==
    \/ \E code \in Codes : KeyDown(code)
    \/ \E code \in Codes : KeyUp(code)
    \/ AnyLiveFrame

\* the steps that count a frame: in LiveNext these are the frames, and a
\* frame can be taken in every followed state
LiveTick == Followed /\ ticks' = ticks + 1

LiveSpec == LiveInit /\ [][LiveNext]_vars /\ WF_ticks(LiveTick)

\* ------------------------------------------------------------------------
\* game.js: the variant that keeps TARGET_COUNT targets on screen
\* ------------------------------------------------------------------------
\* It has its own page: player, targets, score and keys; no health, no run
\* time, no Game Over. Its state is held in keys, player, score, targets,
\* nextId, lastSrc, ticks and ev; the other variables are not used.
\* CFG of game.js (speeds in px/s, times in s, factors per mille)
TARGET_COUNT == 1
GAME_PLAYER_SPEED == 150
TARGET_BASE_SPEED == 110
DESIRED_DIST == 140
THREAT_DIST == 120
WALL_PAD == 32
JUKE_STRENGTH == 800
JITTER == 400
DASH_TIME == 5
DASH_COOLDOWN == 9
SCORE_SPEED_BOOST == 60

\* Math.sin(performance.now() * 0.005 + score), per mille
Oscs == {-1000, 500}

\* MODULE 4 of game.js: no Space
gameMapKey(code) ==
    CASE code \in {"KeyW", "ArrowUp"} -> "up"
      [] code \in {"KeyS", "ArrowDown"} -> "down"
      [] code \in {"KeyA", "ArrowLeft"} -> "left"
      [] code \in {"KeyD", "ArrowRight"} -> "right"
      [] OTHER -> "null"

\* the target object of spawnOneTarget; its per-target tuning fields are
\* copies of CFG that nothing writes and are read from CFG here
GameTarget(x, y, id) ==
    [ id |-> id, x |-> x, y |-> y,
      w |-> TARGET_SIZE * PX, h |-> TARGET_SIZE * PX,
      vx |-> 0, vy |-> 0, dashCooldown |-> 0, dashTime |-> 0 ]

\* spawnOneTarget(avoidRect) from attempt i on: the targets it can return
RECURSIVE spawnOneFrom(_, _)
spawnOneFrom(p, i) ==
    IF i >= SPAWN_TRIES
    THEN {GameTarget((CANVAS_W - TARGET_SIZE - FALLBACK_INSET) * PX,
                     (CANVAS_H - TARGET_SIZE - FALLBACK_INSET) * PX, 0)}
    ELSE LET made == {GameTarget(Mul((CANVAS_W - TARGET_SIZE) * PX, r[1]),
                                 Mul((CANVAS_H - TARGET_SIZE) * PX, r[2]), 0) :
                         r \in SpawnRand}
         IN  {t \in made : ~rectsOverlap(p, t)}
               \cup (IF \E t \in made : rectsOverlap(p, t)
                     THEN spawnOneFrom(p, i + 1) ELSE {})

spawnOneTarget(avoidRect) == spawnOneFrom(avoidRect, 0)

\* variant: nothing is pushed
ensureTargetCount_none(ts, p, id0) == {ts}

\* while (targets.length < CFG.TARGET_COUNT) targets.push(spawnOneTarget(player)):
\* the arrays the loop can leave, the new objects numbered from id0
ensureTargetCount(ts, p, id0) ==
    LET n == Max(0, TARGET_COUNT - Len(ts))
    IN  { ts \o [i \in 1..n |-> [pick[i] EXCEPT !.id = id0 + i - 1]] :
            pick \in [1..n -> spawnOneTarget(p)] }

\* MODULE 7 of game.js
playerDist(t, p) == HypotOr(centerX(p) - centerX(t), centerY(p) - centerY(t), PX)

fleeWeight(dist) ==
    IF dist > DESIRED_DIST * PX THEN Trunc(400 * DESIRED_DIST * PX, dist) ELSE FP

\* wall avoidance: the unit vector away from the walls closer than wallPad
wallAvoid(t) ==
    normDir([ dx |-> (IF centerX(t) < WALL_PAD * PX THEN 1 ELSE 0)
                   - (IF centerX(t) > (CANVAS_W - WALL_PAD) * PX THEN 1 ELSE 0),
              dy |-> (IF centerY(t) < WALL_PAD * PX THEN 1 ELSE 0)
                   - (IF centerY(t) > (CANVAS_H - WALL_PAD) * PX THEN 1 ELSE 0) ])

\* the panic dash: the timers (ms) count down, and a player closer than
\* threatDist arms them once the cooldown has reached 0
dashStep(t, dist, dt) ==
    IF dist < THREAT_DIST * PX /\ Max(0, t.dashCooldown - dt) = 0
    THEN [t EXCEPT !.dashTime = DASH_TIME * 1000, !.dashCooldown = DASH_COOLDOWN * 1000]
    ELSE [t EXCEPT !.dashCooldown = Max(0, @ - dt), !.dashTime = Max(0, @ - dt)]

\* the combined steering, normalised: away the unit vector from the player,
\* fw the flee weight, osc the strafe oscillation, wall the wall vector,
\* r the two Math.random() values of the jitter
gameSteer(away, fw, osc, wall, r) ==
    Norm(Mul(away.x, fw) + Mul(Mul(-away.y, osc), JUKE_STRENGTH)
           + Mul(wall.dx, 1200) + Mul(Mul(r[1] - 500, JITTER), 600),
         Mul(away.y, fw) + Mul(Mul(away.x, osc), JUKE_STRENGTH)
           + Mul(wall.dy, 1200) + Mul(Mul(r[2] - 500, JITTER), 600),
         FP)

\* cap = Math.min(t.maxSpeed, wantSpeed * dashMult), with
\* wantSpeed = t.baseSpeed * (1 + 0.6 * Math.min(1, score * SCORE_SPEED_BOOST))
speedCap(t, sc) ==
    Min(TARGET_MAX_SPEED * PX,
        Mul(Mul(TARGET_BASE_SPEED * PX, FP + Mul(600, Min(FP, sc * SCORE_SPEED_BOOST))),
            IF t.dashTime > 0 THEN 1800 ELSE 1000))

\* accelerate along s, cap the speed, move, bounce
gameIntegrate(t, s, dt, cap) ==
    bounce(move(clampSpeed(
        [t EXCEPT !.vx = @ + Trunc(s.x * TARGET_MAX_ACCEL * PX * dt, FP * 1000),
                  !.vy = @ + Trunc(s.y * TARGET_MAX_ACCEL * PX * dt, FP * 1000)],
        cap), dt))

\* updateTargetAI(t, dt) of game.js on the target td whose dash timers
\* have been stepped
gameTargetAI(td, p, sc, dt, osc, r) ==
    gameIntegrate(td,
        gameSteer(Norm(centerX(td) - centerX(p), centerY(td) - centerY(p), PX),
                  fleeWeight(playerDist(td, p)), osc, wallAvoid(td), r),
        dt, speedCap(td, sc))

\* MODULE 8 of game.js: the loop over the targets, from index i down to 1;
\* gs = [targets, score, caught]
RECURSIVE gamePass(_, _, _, _, _, _)
gamePass(gs, i, p, dt, osc, rnd) ==
    IF i < 1 THEN gs
    ELSE gamePass(
           collect([gs EXCEPT !.targets[i] =
                       gameTargetAI(dashStep(@, playerDist(@, p), dt),
                                    p, gs.score, dt, osc, rnd[i])],
                   i, p),
           i - 1, p, dt, osc, rnd)

GameEvent(dt, gs, spawned) ==
    [NoEvent EXCEPT !.kind = "tick", !.dt = dt, !.caught = gs.caught,
                    !.spawned = spawned, !.score0 = score, !.ids0 = ids(targets)]

\* update(dt) of game.js
gameUpdate(dt, osc, rnd) ==
    \E p \in {movePlayerBy(player, normDir(keyDir(keys)), dt)} :
      \E gs \in {gamePass([targets |-> targets, score |-> score, caught |-> << >>],
                          Len(targets), p, dt, osc, rnd)} :
        /\ player' = p
        /\ score' = gs.score
        /\ targets' \in ensureTargetCount(gs.targets, p, nextId)
        /\ nextId' = nextId + (Len(targets') - Len(gs.targets))
        /\ ev' = GameEvent(dt, gs, ids(targets') \ ids(gs.targets))

\* MODULE 10 of game.js
GameFrame(delta, osc, rnd) ==
    /\ ticks < MaxTicks
    /\ delta \in (IF lastSrc = "now" THEN FirstDeltas ELSE Deltas)
    /\ gameUpdate(Min(DT_MAX, delta), osc, rnd)
    /\ lastSrc' = "frame"
    /\ ticks' = ticks + 1
    /\ UNCHANGED <<keys, hp, alive, elapsed, sect, heat, canvas>>

GameKeyDown(code) ==
    /\ keys' = (IF gameMapKey(code) # "null" THEN keys \cup {gameMapKey(code)} ELSE keys)
    /\ UNCHANGED <<player, score, hp, alive, elapsed, targets, sect, heat,
                   lastSrc, nextId, ticks, ev, canvas>>

GameKeyUp(code) ==
    /\ keys' = (IF gameMapKey(code) # "null" THEN keys \ {gameMapKey(code)} ELSE keys)
    /\ UNCHANGED <<player, score, hp, alive, elapsed, targets, sect, heat,
                   lastSrc, nextId, ticks, ev, canvas>>

GamePlayer(x, y) == [NewPlayer(x, y) EXCEPT !.speed = GAME_PLAYER_SPEED * PX]

\* the variables game.js does not have
GameRest ==
    /\ hp = HEALTH_MAX * 1000 /\ alive = TRUE /\ elapsed = 0
    /\ sect = [assigned |-> FALSE] /\ heat = NoHeat
    /\ canvas = Page
    /\ ev = NoEvent

\* boot() of game.js: targets = []; ensureTargetCount()
GameBoot ==
    /\ GameRest
    /\ keys = {}
    /\ player = GamePlayer(120 * PX, 120 * PX)
    /\ score = 0
    /\ targets \in ensureTargetCount(<< >>, GamePlayer(120 * PX, 120 * PX), 1)
    /\ nextId = 2
    /\ lastSrc = "now"
    /\ ticks = 0

\* a running game: the player, moving right, has cornered the target
\* against the right wall, sc targets caught so far
GameCornered(sc, gap) ==
    /\ GameRest
    /\ keys = {"right"}
    /\ player = GamePlayer(WallX - PLAYER_SIZE * PX - gap, 200 * PX)
    /\ score = sc
    /\ targets = << [GameTarget(WallX, 200 * PX, sc + 1) EXCEPT !.dashCooldown = 3000] >>
    /\ nextId = sc + 2
    /\ lastSrc = "frame"
    /\ ticks = 0

GameInit == GameBoot \/ \E sc \in {0, 9}, gap \in {10, 30} : GameCornered(sc, gap)

GameNext ==
    \/ \E code \in Codes : GameKeyDown(code)
    \/ \E code \in Codes : GameKeyUp(code)
    \/ \E delta \in FirstDeltas \cup Deltas, osc \in Oscs :
         \E rnd \in [1..Len(targets) -> RandPairs] : GameFrame(delta, osc, rnd)

GameSpec == GameInit /\ [][GameNext]_vars

\* ------------------------------------------------------------------------
\* Properties
\* ------------------------------------------------------------------------
\* the calls of update made in a live session
Ticked == ev.kind \in {"tick", "gameover"}

\* C1: at every point of a session the cap targetCap returns is exactly
\* 1 + floor(elapsed / 30 s): it is the one integer c with
\* (c - 1) * 30 s <= elapsed < c * 30 s, and it is 1 at 0 s and 29.9 s,
\* 2 at 30 s, 3 at 89.9 s and 4 at 90 s.
C1_CapIsFloor ==
    /\ (targetCap(elapsed) - 1) * TIME_STEP_SEC * 1000 <= elapsed
    /\ elapsed < targetCap(elapsed) * TIME_STEP_SEC * 1000
    /\ (elapsed = 0 => targetCap(elapsed) = 1)
    /\ (elapsed = 29900 => targetCap(elapsed) = 1)
    /\ (elapsed = 30000 => targetCap(elapsed) = 2)
    /\ (elapsed = 89900 => targetCap(elapsed) = 3)
    /\ (elapsed = 90000 => targetCap(elapsed) = 4)

\* a tick has brought the session to exactly 90 s
C1_At90s == ev.kind = "tick" /\ ev.elapsed0 < 90000 /\ elapsed = 90000

\* C2: within a session the cap never decreases from one tick to the
\* next, whatever timestamp the frame receives, and a restart sets it to 1.
C2_CapNeverDecreases ==
    /\ (Ticked => targetCap(elapsed) >= targetCap(ev.elapsed0))
    /\ (ev.kind = "restart" => targetCap(elapsed) = 1)

\* C3: a target is added only in a tick whose capture pass left the set
\* empty; while one remains, none is spawned and the set holds only targets
\* it held before, even when the cap exceeds the number of targets.
C3_SpawnOnlyOnClear ==
    Ticked =>
       /\ (ev.spawned # {} => ev.cleared)
       /\ (~ev.cleared => ids(targets) \subseteq ev.ids0)

\* a tick ended with fewer targets than the cap, and did not clear
C3_BelowCapNoSpawn ==
    /\ ev.kind = "tick" /\ ~ev.cleared
    /\ Len(targets) >= 1
    /\ Len(targets) < targetCap(elapsed)

\* C4: right after the respawn of a full clear the number of targets is
\* the cap at the elapsed time of that tick, all of them new.
C4_RefillToCap ==
    (ev.kind = "tick" /\ ev.cleared) =>
       /\ Len(targets) = targetCap(elapsed)
       /\ ev.spawned = ids(targets)
       /\ Cardinality(ev.spawned) = Len(targets)

\* a clear at 90 s has respawned four targets
C4_ClearAt90s ==
    ev.kind = "tick" /\ ev.cleared /\ elapsed = 90000 /\ Len(targets) = 4

\* C5: health stays within [0, HEALTH_MAX]; a tick of a live session ends
\* with more health than it started with only if it cleared the set; a
\* tick that cleared ends at HEALTH_MAX; every other tick with dt > 0 ends
\* with strictly less health.
C5_HealthRefillOnlyOnClear ==
    /\ 0 <= hp /\ hp <= HEALTH_MAX * 1000
    /\ Ticked =>
         /\ (hp > ev.hp0 => ev.cleared)
         /\ (ev.cleared => hp = HEALTH_MAX * 1000)
         /\ (~ev.cleared /\ ev.dt > 0 => hp < ev.hp0)

\* a clearing tick has raised health to HEALTH_MAX
C5_Refilled ==
    ev.kind = "tick" /\ ev.cleared /\ ev.hp0 < hp /\ hp = HEALTH_MAX * 1000

\* C6: the tick in which health reaches zero ends in Game Over, with no
\* target updated, caught or spawned in it; a call of update in Game Over
\* leaves elapsed, health, score, the player and the targets as they were;
\* and Game Over is left only by a restart, made while Space is held.
C6_GameOverState ==
    /\ (Ticked /\ hp <= 0 => ~alive /\ ev.kind = "gameover")
    /\ (ev.kind = "gameover" =>
          /\ ~alive /\ hp = 0
          /\ ev.updated = << >> /\ ev.caught = << >> /\ ev.spawned = {}
          /\ score = ev.score0 /\ ids(targets) = ev.ids0)
    /\ (ev.kind = "idle" => ~alive)

C6_GameOverStep ==
    ~alive =>
       /\ (~alive' => UNCHANGED <<elapsed, hp, score, player, targets>>)
       /\ (alive' => "space" \in keys /\ ev'.kind = "restart")

C6_GameOverFrozen == []C6_GameOverState /\ [][C6_GameOverStep]_vars

\* update was called in Game Over without Space held
C6_IdleInGameOver == ~alive /\ ev.kind = "idle" /\ "space" \notin keys

\* C7: in a run whose frames keep arriving with dt > 0 (the frames of
\* LiveSpec), if from some tick on no tick clears the set, the run
\* eventually is in Game Over.
C7_DrainEndsRun == <>[](~ev.cleared) => <>(~alive)

\* a run has ended in Game Over by the drain
C7_RanOut == ev.kind = "gameover" /\ ev.hp0 > 0 /\ hp = 0 /\ ~alive

\* C8: right after restart, elapsed is 0, score 0, health HEALTH_MAX, the
\* game alive, and the set holds exactly cap(0) = 1 target, newly spawned
\* (no velocity, no _ai) and none of the targets held before.
C8_RestartState ==
    ev.kind = "restart" =>
       /\ elapsed = 0 /\ score = 0 /\ hp = HEALTH_MAX * 1000 /\ alive
       /\ targetCap(0) = 1
       /\ Len(targets) = 1
       /\ ids(targets) = ev.spawned
       /\ ids(targets) \cap ev.ids0 = {}
       /\ \A i \in 1..Len(targets) :
             targets[i].vx = 0 /\ targets[i].vy = 0 /\ ~targets[i].ai.init

\* a restart was made from a Game Over that held a target
C8_Restarted == ev.kind = "restart" /\ ev.elapsed0 > 0 /\ ev.ids0 # {}

\* C9: restart resets the sector assignment: after it _SECT is unassigned.
C9_RestartResetsSectors == ev.kind = "restart" => ~sect.assigned

Speed(t) == Hypot(t.vx, t.vy)

\* the speed cap of a tick for a target at distance d: TARGET_MAX_SPEED,
\* times the panic factor if d is below the panic distance
CapAt(d) ==
    IF d < PANIC_DIST * PX
    THEN (TARGET_MAX_SPEED * PX * PANIC_SPEED_UP) \div FP
    ELSE TARGET_MAX_SPEED * PX

\* every target of the set after a tick, paired with the record of its update
CappedBy(dist(_)) ==
    ev.kind = "tick" =>
       \A i \in 1..Len(targets) : \A u \in 1..Len(ev.updated) :
          ev.updated[u].id = targets[i].id =>
             Speed(targets[i]) <= CapAt(dist(ev.updated[u]))

PlayerDist(u) == u.dp
PredictedDist(u) == u.d

InArena(t) ==
    /\ 0 <= t.x /\ t.x <= canvas.width * PX - t.w
    /\ 0 <= t.y /\ t.y <= canvas.height * PX - t.h

C11_TargetsInArena == \A i \in 1..Len(targets) : InArena(targets[i])

\* a tick has advanced a target past the right edge and it is still in the array
C11_PushedBack ==
    /\ ev.kind = "tick"
    /\ \E i \in 1..Len(targets) : \E u \in 1..Len(ev.updated) :
          /\ ev.updated[u].id = targets[i].id
          /\ ~InArena(ev.updated[u].moved)
          /\ ev.updated[u].moved.x > canvas.width * PX - targets[i].w

\* ------------------------------------------------------------------------
\* C12: when the advanced position of a target is past a bound, the step
\* leaves the coordinate exactly on that bound and the velocity component
\* normal to it pointing into the canvas with 0.7 times the magnitude it
\* had before the bounce; a component whose coordinate is past no bound is
\* left as it was (crossing x = 0 with vx = -100 gives x = 0 and vx = 70).
\* pos, vel: one coordinate as advanced; hi: its upper bound
BouncedOn(pos, vel, hi, pos1, vel1) ==
    IF pos < 0
    THEN pos1 = 0  /\ vel1 >= 0 /\ vel1 * 10 = Abs(vel) * 7 - ((Abs(vel) * 7) % 10)
    ELSE IF pos > hi
    THEN pos1 = hi /\ vel1 <= 0 /\ -vel1 * 10 = Abs(vel) * 7 - ((Abs(vel) * 7) % 10)
    ELSE pos1 = pos /\ vel1 = vel

LeftExample == [NewTarget(-5, 100 * PX, 0) EXCEPT !.vx = -100 * PX, !.vy = 30 * PX]

C12_Bounce ==
    /\ \A u \in 1..Len(ev.updated) :
          /\ BouncedOn(ev.updated[u].moved.x, ev.updated[u].moved.vx,
                       canvas.width * PX - ev.updated[u].moved.w,
                       ev.updated[u].out.x, ev.updated[u].out.vx)
          /\ BouncedOn(ev.updated[u].moved.y, ev.updated[u].moved.vy,
                       canvas.height * PX - ev.updated[u].moved.h,
                       ev.updated[u].out.y, ev.updated[u].out.vy)
    /\ bounce(LeftExample).x = 0
    /\ bounce(LeftExample).vx = 70 * PX
    /\ bounce(LeftExample).vy = 30 * PX

\* a target moving along the right edge as well as into it has bounced
C12_BouncedOffRight ==
    \E u \in 1..Len(ev.updated) :
       /\ ev.updated[u].moved.x > canvas.width * PX - ev.updated[u].moved.w
       /\ ev.updated[u].moved.vx > 0
       /\ ev.updated[u].moved.vy # 0
       /\ ev.updated[u].out.vx < 0
       /\ ev.updated[u].out.vy = ev.updated[u].moved.vy

\* ------------------------------------------------------------------------
\* C13: spawnAvoidingPlayer always returns a target, after at most 20
\* samples: a sample that does not overlap the player, reached only over
\* samples that overlap it, or, after 20 overlapping samples and only
\* then, the fallback at (width - w - 10, height - h - 10); a player
\* rectangle that covers the whole canvas gets the fallback.
Samples == {makeTarget(r) : r \in SpawnRand}

SpawnedRight(p, s) ==
    /\ 1 <= s.tries /\ s.tries <= 20
    /\ (s.tries > 1 => \E m \in Samples : rectsOverlap(p, m))
    /\ IF s.fallback
       THEN /\ s.tries = 20
            /\ s.t.x = canvas.width * PX - s.t.w - 10 * PX
            /\ s.t.y = canvas.height * PX - s.t.h - 10 * PX
            /\ s.t.w = TARGET_SIZE * PX /\ s.t.h = TARGET_SIZE * PX
            /\ s.t.vx = 0 /\ s.t.vy = 0
       ELSE s.t \in Samples /\ ~rectsOverlap(p, s.t)

Covering == [x |-> 0, y |-> 0, w |-> canvas.width * PX, h |-> canvas.height * PX]

\* the returns rs of a call for the rectangle p
SpawnsRight(p, rs) ==
    /\ rs # {}
    /\ \A s \in rs : SpawnedRight(p, s)
    /\ (\E s \in rs : s.fallback) <=> (\E m \in Samples : rectsOverlap(p, m))

\* the player's rectangle changes in ticks only: each one is tried in the
\* state where the keys are released. The covering rectangle does not
\* depend on the state: it is tried in the start states
C13_SpawnTerminates ==
    /\ keys = {} => SpawnsRight(player, spawnFrom(player, 0))
    /\ ev.kind = "none" =>
          /\ SpawnsRight(Covering, spawnFrom(Covering, 0))
          /\ \A s \in spawnFrom(Covering, 0) : s.fallback

\* the player stands on a sample and the target in play is the fallback
C13_FallbackTaken ==
    /\ \E m \in Samples : rectsOverlap(player, m)
    /\ \E s \in spawnFrom(player, 0) : s.fallback /\ s.tries = 20
    /\ \E i \in 1..Len(targets) :
          /\ ~targets[i].ai.init
          /\ targets[i].x = (canvas.width - TARGET_SIZE - 10) * PX
          /\ targets[i].y = (canvas.height - TARGET_SIZE - 10) * PX

\* ------------------------------------------------------------------------
\* C14: a target leaves the array only in a tick in which, after its own
\* step, its rectangle overlaps the player's, and the score grows by one
\* for each target that leaves; outside a tick only a restart changes the
\* array or the score, and it sets the score to 0.
Gone == ev.ids0 \ ids(targets)

Overlapped == {ev.updated[u].id : u \in {v \in 1..Len(ev.updated) :
                                            rectsOverlap(player, ev.updated[v].out)}}

C14_CaptureScores ==
    /\ (ev.kind = "tick" => Gone = Overlapped /\ score = ev.score0 + Cardinality(Gone))
    /\ (ev.kind \in {"idle", "gameover"} => Gone = {} /\ score = ev.score0)
    /\ (ev.kind = "restart" => score = 0)

\* of two targets one was captured, the other was not
C14_OneOfTwoCaptured ==
    /\ ev.kind = "tick"
    /\ Cardinality(ev.ids0) = 2
    /\ Cardinality(Gone) = 1
    /\ Len(targets) = 1
    /\ score = ev.score0 + 1

\* ------------------------------------------------------------------------
\* C15: every cell of the heat grid is non-negative in every reachable
\* state.
C15_HeatNonNegative == \A j \in 1..Len(heat.grid) : heat.grid[j] >= 0

\* a tick has decayed and stamped the grid: the player's cell is hot,
\* another cell is at zero
C15_Stamped ==
    /\ ev.kind = "tick" /\ ev.heatTicks >= 1
    /\ heat.grid[heatmapIdx(heat, centerX(player), centerY(player))]
          >= HEATMAP_PLAYER_STAMP
    /\ \E j \in 1..Len(heat.grid) : heat.grid[j] = 0

\* ------------------------------------------------------------------------
\* C16: in every tick the heat grid is decayed and stamped exactly once,
\* whatever the number of targets, before any target samples it.
C16_HeatOncePerTick == ev.kind = "tick" => ev.heatTicks = 1

\* ------------------------------------------------------------------------
\* C17: during the pass of a tick over the targets the array keeps its
\* length: every target is updated while the array still holds all the
\* targets the tick started with, the captured ones being removed only
\* after the last update.
C17_RemovalDeferred ==
    ev.kind = "tick" =>
       \A u \in 1..Len(ev.updated) : ev.updated[u].n = Cardinality(ev.ids0)

\* ------------------------------------------------------------------------
\* C18: a target still in the array after its first tick holds a sector
\* index of its own: one that was assigned (0 or more), different from the
\* index of every other target in the array; also when the target was
\* spawned after a full clear.
FirstTicked ==
    {i \in 1..Len(targets) :
        /\ targets[i].id \in ev.fresh0
        /\ \E u \in 1..Len(ev.updated) : ev.updated[u].id = targets[i].id}

C18_SectorOfItsOwn ==
    ev.kind = "tick" =>
       \A i \in FirstTicked :
          /\ targets[i].ai.sectorIndex >= 0
          /\ \A j \in 1..Len(targets) :
                j # i => targets[j].ai.sectorIndex # targets[i].ai.sectorIndex

\* ------------------------------------------------------------------------
\* C19: a canvas of width or height zero or less is rejected when the
\* script starts: with such a canvas no target is ever spawned, no call of
\* update is made, the heat grid is never built and no sector is assigned.
C19_EmptyCanvasRejected ==
    (canvas.width <= 0 \/ canvas.height <= 0) =>
       /\ targets = << >>
       /\ ev.kind = "none"
       /\ heat = NoHeat
       /\ ~sect.assigned

\* ------------------------------------------------------------------------
\* C20: in game.js every update that catches targets raises the score by
\* one per target caught and pushes as many new targets, so that the array
\* holds TARGET_COUNT targets at the end of every update (and after boot).
C20_ToppedUp ==
    /\ Len(targets) = TARGET_COUNT
    /\ ev.kind = "tick" =>
          /\ score = ev.score0 + Len(ev.caught)
          /\ Cardinality(ev.spawned) = Len(ev.caught)
          /\ ev.spawned \cap ev.ids0 = {}
          /\ ev.spawned \subseteq ids(targets)
          /\ \A k \in 1..Len(ev.caught) :
                ev.caught[k] \in ev.ids0 /\ ev.caught[k] \notin ids(targets)

\* an update has caught the target and pushed a new one
C20_CaughtAndRespawned ==
    /\ ev.kind = "tick"
    /\ Len(ev.caught) = 1
    /\ score = ev.score0 + 1
    /\ ev.spawned # {}
    /\ Len(targets) = TARGET_COUNT

\* ------------------------------------------------------------------------
\* C21: one heat tick leaves in the cell of the player's centre the old
\* value times the decay plus the deposit, and in every other cell the old
\* value times the decay. The grid a tick finds unallocated is all zero.
OldHeat(j) == IF ev.heat0.cols = 0 THEN 0 ELSE ev.heat0.grid[j]

PlayerCell ==
    (Min(canvas.height * PX - 1, centerY(player)) \div (HEATMAP_CELL * PX))
        * Ceil(canvas.width, HEATMAP_CELL)
    + Min(canvas.width * PX - 1, centerX(player)) \div (HEATMAP_CELL * PX) + 1

C21_DecayThenDeposit ==
    ev.kind = "tick" /\ ev.heatTicks = 1 =>
        \A j \in 1..Len(heat.grid) :
            heat.grid[j] = (OldHeat(j) * HEATMAP_DECAY) \div FP
                           + (IF j = PlayerCell THEN HEATMAP_PLAYER_STAMP ELSE 0)

\* one heat tick on a grid with a warm cell the player has left: that cell
\* has only decayed, the player's cell has the deposit
C21_TrailDecayed ==
    /\ ev.kind = "tick" /\ ev.heatTicks = 1
    /\ \E j \in 1..Len(heat.grid) :
          j # PlayerCell /\ OldHeat(j) > 0 /\ heat.grid[j] < OldHeat(j)
    /\ heat.grid[PlayerCell] >= HEATMAP_PLAYER_STAMP

\* ------------------------------------------------------------------------
\* the burst of the updated target u went from not active to active in the
\* tick: its timer, counted down by the tick, had run out, and the tick
\* left it running
BurstStarted(u) == Max(0, u.pre.ai.jukeTime - ev.dt) = 0 /\ u.out.ai.jukeTime > 0

\* the burst cooldown of u has expired in the tick
BurstCooled(u) == Max(0, u.pre.ai.jukeCool - ev.dt) = 0

\* the part of the line from the player's centre to the centre of u that
\* lies along the direction di = (dx, dy) the tick read from the keys
Along(u, di) ==
    ((centerX(u.pre) - centerX(player)) * di.dx
       + (centerY(u.pre) - centerY(player)) * di.dy) \div Hypot(di.dx, di.dy)

\* the player's intent is not zero and its cosine with the line from the
\* player to u is above JUKE_TRIGGER_ANGLE
BearingDown(u) ==
    /\ Hypot(ev.di0.dx, ev.di0.dy) > 0
    /\ Along(u, ev.di0) * FP
          > JUKE_TRIGGER_ANGLE * Hypot(centerX(u.pre) - centerX(player),
                                       centerY(u.pre) - centerY(player))

BurstStartsWithin(dist(_)) ==
    ev.kind = "tick" =>
       \A k \in 1..Len(ev.updated) :
          BurstStarted(ev.updated[k]) =>
             /\ dist(ev.updated[k]) < JUKE_CLOSE_DIST * PX
             /\ BurstCooled(ev.updated[k])
             /\ BearingDown(ev.updated[k])

C23_CooldownFromEnd ==
    \A i \in 1..Len(targets) :
        targets[i].ai.jukeTime > 0 =>
            targets[i].ai.jukeCool >= targets[i].ai.jukeTime + JUKE_COOLDOWN

\* ------------------------------------------------------------------------
\* the patrol of the updated target u went from not active to active in
\* the tick
PatrolStarted(u) == Max(0, u.pre.ai.patrolTime - ev.dt) = 0 /\ u.out.ai.patrolTime > 0

\* as the tick found it, u was within CORNER_NEAR_EDGE of a canvas edge
NearAnEdge(u) ==
    \/ u.pre.x < CORNER_NEAR_EDGE * PX
    \/ u.pre.x > (canvas.width - CORNER_NEAR_EDGE) * PX - u.pre.w
    \/ u.pre.y < CORNER_NEAR_EDGE * PX
    \/ u.pre.y > (canvas.height - CORNER_NEAR_EDGE) * PX - u.pre.h

PatrolStartsBeyond(dist(_)) ==
    ev.kind = "tick" =>
       \A k \in 1..Len(ev.updated) :
          PatrolStarted(ev.updated[k]) =>
             /\ dist(ev.updated[k]) * 10 > ORBIT_DIST * PX * 9
             /\ NearAnEdge(ev.updated[k])
             /\ Max(0, ev.updated[k].pre.ai.patrolCool - ev.dt) = 0

AddedBy(u, k) ==
    [ x |-> u.log[k].sx - u.log[k - 1].sx, y |-> u.log[k].sy - u.log[k - 1].sy ]

Push(on, dirX, dirY, push) ==
    IF on THEN [x |-> Mul(dirX, push), y |-> Mul(dirY, push)]
    ELSE [x |-> 0, y |-> 0]

\* C25: in every tick the burst adds its direction times JUKE_PUSH to the
\* steer of a target if the burst is active in the tick, the tick that
\* starts it included, and nothing otherwise; the patrol likewise with
\* PATROL_PUSH.
C25_PushWhileActive ==
    ev.kind = "tick" =>
       \A k \in 1..Len(ev.updated) :
          /\ AddedBy(ev.updated[k], 5)
                = Push(ev.updated[k].out.ai.jukeTime > 0,
                       ev.updated[k].out.ai.jukeDirX, ev.updated[k].out.ai.jukeDirY,
                       JUKE_PUSH)
          /\ AddedBy(ev.updated[k], 6)
                = Push(ev.updated[k].out.ai.patrolTime > 0,
                       ev.updated[k].out.ai.patrolDirX, ev.updated[k].out.ai.patrolDirY,
                       PATROL_PUSH)

\* ------------------------------------------------------------------------
NoPush == [x |-> 0, y |-> 0]

SectorPullOnlyBeyond(dist(_)) ==
    ev.kind = "tick" =>
       \A k \in 1..Len(ev.updated) :
          dist(ev.updated[k]) * 10 <= ORBIT_DIST * PX * 9
             => AddedBy(ev.updated[k], 4) = NoPush

HeatAcross(t) ==
    [ x |-> heatmapSample(heat, centerX(t) + 24 * PX, centerY(t))
              - heatmapSample(heat, centerX(t) - 24 * PX, centerY(t)),
      y |-> heatmapSample(heat, centerX(t), centerY(t) + 24 * PX)
              - heatmapSample(heat, centerX(t), centerY(t) - 24 * PX) ]

\* the push a on an axis goes against the heat difference d on that axis
Against(a, d) == (d = 0 => a = 0) /\ a * d <= 0 /\ (Abs(d) >= 1000 => a # 0)

\* C27: the heat term steers against the heat gradient on both axes: on
\* each axis it is zero when the heat is equal ahead and behind, opposite in
\* sign to the difference otherwise, never toward the hotter side. Stated
\* for the target a tick updates last, which samples the grid the tick
\* leaves.
C27_AgainstHeatGradient ==
    ev.kind = "tick" /\ Len(ev.updated) > 0 =>
       /\ Against(AddedBy(ev.updated[Len(ev.updated)], 2).x,
                  HeatAcross(ev.updated[Len(ev.updated)].pre).x)
       /\ Against(AddedBy(ev.updated[Len(ev.updated)], 2).y,
                  HeatAcross(ev.updated[Len(ev.updated)].pre).y)

\* ------------------------------------------------------------------------
\* the length, per mille, of the direction (ax, ay) the step of a target
\* accelerates along; the step leaves it in lastSteerX, lastSteerY
AccelLen(t) == Hypot(t.ai.lastSteerX, t.ai.lastSteerY)

\* C28 as stated: the direction every updated target is accelerated along
\* is a unit vector (within 1%), in every tick, its first included.
C28_UnitDirection ==
    ev.kind = "tick" =>
       \A k \in 1..Len(ev.updated) : AccelLen(ev.updated[k].out) >= 990

\* C28 amended: the direction a target is accelerated along is never longer
\* than a unit vector, and in the first tick of a target, its previous
\* direction being zero, no longer than 1 - SMOOTH.
C28_AtMostUnitDirection ==
    /\ \A i \in 1..Len(targets) : AccelLen(targets[i]) <= FP
    /\ ev.kind = "tick" =>
          \A k \in 1..Len(ev.updated) :
             /\ AccelLen(ev.updated[k].out) <= FP
             /\ ev.updated[k].id \in ev.fresh0
                   => AccelLen(ev.updated[k].out) <= FP - SMOOTH

\* a tick was the first of a target and accelerated it along a direction of
\* length 1 - SMOOTH
C28_ShortDirection ==
    /\ ev.kind = "tick"
    /\ \E k \in 1..Len(ev.updated) :
          /\ ev.updated[k].id \in ev.fresh0
          /\ AccelLen(ev.updated[k].out) >= FP - SMOOTH - 5

\* ------------------------------------------------------------------------
\* the distance from the updated target u to the centre c of another
Apart(u, c) == Hypot(centerX(u.pre) - c.x, centerY(u.pre) - c.y)

\* the other targets strictly inside the separation radius of u, at a
\* distance that is not zero
Crowding(u) ==
    {j \in DOMAIN u.peers :
        Apart(u, u.peers[j]) > 0 /\ Apart(u, u.peers[j]) < SEP_RADIUS * PX}

\* v has the length SEP_FORCE (within 1%) and points from c to u (within
\* 1% of a radian)
AwayFrom(v, u, c) ==
    /\ Hypot(v.x, v.y) >= SEP_FORCE - 9 /\ Hypot(v.x, v.y) <= SEP_FORCE
    /\ v.x * (centerX(u.pre) - c.x) + v.y * (centerY(u.pre) - c.y) > 0
    /\ Abs(v.x * (centerY(u.pre) - c.y) - v.y * (centerX(u.pre) - c.x)) * 100
          <= SEP_FORCE * Apart(u, c)

\* C29: the separation term of a target is zero when no other target is
\* strictly inside SEP_RADIUS at a non-zero distance (targets at or beyond
\* the radius and targets at distance zero add nothing), and with exactly
\* one such target it has the length SEP_FORCE and points directly away
\* from that target.
C29_Separation ==
    ev.kind = "tick" =>
       \A k \in 1..Len(ev.updated) :
          /\ Crowding(ev.updated[k]) = {} => ev.updated[k].sep = NoPush
          /\ \A j \in Crowding(ev.updated[k]) :
                Crowding(ev.updated[k]) = {j}
                   => AwayFrom(ev.updated[k].sep, ev.updated[k],
                               ev.updated[k].peers[j])

\* a tick updated a target with exactly one other inside the radius and
\* others beyond it, and a target with one other at distance zero and the
\* rest beyond the radius
C29_OneInsideOneOnTop ==
    /\ ev.kind = "tick"
    /\ \E k \in 1..Len(ev.updated) :
          /\ Cardinality(Crowding(ev.updated[k])) = 1
          /\ Cardinality(DOMAIN ev.updated[k].peers) > 1
          /\ ev.updated[k].sep # NoPush
    /\ \E k \in 1..Len(ev.updated) :
          /\ Crowding(ev.updated[k]) = {}
          /\ \E j \in DOMAIN ev.updated[k].peers :
                Apart(ev.updated[k], ev.updated[k].peers[j]) = 0
          /\ \E j \in DOMAIN ev.updated[k].peers :
                Apart(ev.updated[k], ev.updated[k].peers[j]) >= SEP_RADIUS * PX

\* ------------------------------------------------------------------------
\* C30: at the end of every call of update, in play or in Game Over, the
\* array holds at least one target and at most targetCap() targets.
C30_WithinCap ==
    ev.kind # "none" =>
        1 <= Len(targets) /\ Len(targets) <= targetCap(elapsed)

\* ------------------------------------------------------------------------
\* C31: in every tick each target of the array the pass starts with is
\* updated exactly once, in a fixed order, from the last index down to the
\* first, also when targets captured earlier in the pass have been removed.
C31_EachOnceInOrder ==
    ev.kind = "tick" =>
       /\ Len(ev.updated) = Len(ev.order0)
       /\ \A k \in 1..Len(ev.updated) :
             ev.updated[k].id = ev.order0[Len(ev.order0) + 1 - k]

\* a tick captured a target and updated another one after it
C31_UpdatedAfterCapture ==
    /\ ev.kind = "tick"
    /\ \E k \in 1..Len(ev.updated) : \E c \in 1..Len(ev.caught) :
          /\ ev.updated[k].id = ev.caught[c]
          /\ k < Len(ev.updated)

\* ------------------------------------------------------------------------
\* a maneuver with the timers (time, cool): both are non-negative, and the
\* cooldown runs while the maneuver is active
TimersSound(time, cool) == time >= 0 /\ cool >= 0 /\ (time > 0 => cool > 0)

\* a maneuver found active by a tick (its timer above 0 after the countdown
\* by dt) is left as it was: the direction kept, the timers counted down
\* and not reloaded
KeptRunning(time0, cool0, dir0, time1, cool1, dir1) ==
    time0 - ev.dt > 0 =>
        dir1 = dir0 /\ time1 = time0 - ev.dt /\ cool1 = Max(0, cool0 - ev.dt)

\* C32: for the burst and for the patrol of every target, in every state:
\* both timers are non-negative, the cooldown timer is positive whenever
\* the active timer is, and a tick that finds the maneuver active does not
\* start it again.
C32_TimersSound ==
    /\ \A i \in 1..Len(targets) :
          /\ TimersSound(targets[i].ai.jukeTime, targets[i].ai.jukeCool)
          /\ TimersSound(targets[i].ai.patrolTime, targets[i].ai.patrolCool)
    /\ ev.kind = "tick" =>
          \A k \in 1..Len(ev.updated) :
             /\ TimersSound(ev.updated[k].out.ai.jukeTime, ev.updated[k].out.ai.jukeCool)
             /\ TimersSound(ev.updated[k].out.ai.patrolTime,
                            ev.updated[k].out.ai.patrolCool)
             /\ KeptRunning(ev.updated[k].pre.ai.jukeTime, ev.updated[k].pre.ai.jukeCool,
                            << ev.updated[k].pre.ai.jukeDirX, ev.updated[k].pre.ai.jukeDirY >>,
                            ev.updated[k].out.ai.jukeTime, ev.updated[k].out.ai.jukeCool,
                            << ev.updated[k].out.ai.jukeDirX, ev.updated[k].out.ai.jukeDirY >>)
             /\ KeptRunning(ev.updated[k].pre.ai.patrolTime, ev.updated[k].pre.ai.patrolCool,
                            << ev.updated[k].pre.ai.patrolDirX, ev.updated[k].pre.ai.patrolDirY >>,
                            ev.updated[k].out.ai.patrolTime, ev.updated[k].out.ai.patrolCool,
                            << ev.updated[k].out.ai.patrolDirX, ev.updated[k].out.ai.patrolDirY >>)

\* a tick found a burst that an earlier tick had started still active, in
\* reach of the player and with the player bearing down on the target
C32_BurstStillRunning ==
    /\ ev.kind = "tick"
    /\ \E k \in 1..Len(ev.updated) :
          /\ ev.updated[k].pre.ai.jukeTime > 0
          /\ ev.updated[k].out.ai.jukeTime > 0
          /\ ev.updated[k].out.ai.jukeTime < ev.updated[k].pre.ai.jukeTime
          /\ PredictedDist(ev.updated[k]) < JUKE_CLOSE_DIST * PX
          /\ BearingDown(ev.updated[k])

\* ------------------------------------------------------------------------
\* the unit vector from the predicted player point of the tick to the
\* centre of the updated target u
AwayOf(u) ==
    Norm(centerX(u.pre) - predictFrom(player, ev.di0).px,
         centerY(u.pre) - predictFrom(player, ev.di0).py, PX)

\* the squared distance from the predicted point to the point 40 px from
\* the centre of u along the direction l
ReachOf(u, l) ==
    (centerX(u.pre) + Trunc(40 * PX * l.x, FP) - predictFrom(player, ev.di0).px)
  * (centerX(u.pre) + Trunc(40 * PX * l.x, FP) - predictFrom(player, ev.di0).px)
  + (centerY(u.pre) + Trunc(40 * PX * l.y, FP) - predictFrom(player, ev.di0).py)
  * (centerY(u.pre) + Trunc(40 * PX * l.y, FP) - predictFrom(player, ev.di0).py)

LeftOf(a) == [x |-> -a.y, y |-> a.x]
RightOf(a) == [x |-> a.y, y |-> -a.x]
JukeDirOf(u) == [x |-> u.out.ai.jukeDirX, y |-> u.out.ai.jukeDirY]

PointsInward(u) ==
    /\ u.pre.x < CORNER_NEAR_EDGE * PX => u.out.ai.patrolDirX > 0
    /\ u.pre.x > (canvas.width - CORNER_NEAR_EDGE) * PX - u.pre.w
          => u.out.ai.patrolDirX < 0
    /\ u.pre.y < CORNER_NEAR_EDGE * PX => u.out.ai.patrolDirY > 0
    /\ u.pre.y > (canvas.height - CORNER_NEAR_EDGE) * PX - u.pre.h
          => u.out.ai.patrolDirY < 0

\* C34: with the canvas wider and taller than twice the safe band, the
\* direction stored when a patrol starts has a strictly positive component
\* along the inward normal of every edge the target is near.
C34_PatrolPointsInward ==
    (ev.kind = "tick" /\ canvas.width > 2 * SAFE_BAND /\ canvas.height > 2 * SAFE_BAND) =>
       \A k \in 1..Len(ev.updated) :
          PatrolStarted(ev.updated[k]) => PointsInward(ev.updated[k])

\* a patrol started in the bottom right corner with the predicted player
\* point above the target, the tangent pointing at the right wall
C34_StartedInCorner ==
    /\ ev.kind = "tick"
    /\ canvas.width > 2 * SAFE_BAND /\ canvas.height > 2 * SAFE_BAND
    /\ \E k \in 1..Len(ev.updated) :
          /\ PatrolStarted(ev.updated[k])
          /\ ev.updated[k].pre.x > (canvas.width - CORNER_NEAR_EDGE) * PX - ev.updated[k].pre.w
          /\ ev.updated[k].pre.y > (canvas.height - CORNER_NEAR_EDGE) * PX - ev.updated[k].pre.h
          /\ predictFrom(player, ev.di0).py < centerY(ev.updated[k].pre)
          /\ ev.updated[k].out.ai.patrolDirX < 0
          /\ ev.updated[k].out.ai.patrolDirY < 0

\* ------------------------------------------------------------------------
\* C35: every cell of the heat grid is at most deposit / (1 - decay) in
\* every reachable state: cell * (1 - decay) <= deposit.
C35_HeatBounded ==
    \A j \in 1..Len(heat.grid) :
        heat.grid[j] * (FP - HEATMAP_DECAY) <= HEATMAP_PLAYER_STAMP * FP

\* a tick with several targets has decayed and stamped the grid more than
\* once, and the cell the player has stayed in is hotter than before,
\* within 1% of the bound
C35_HotCellStamped ==
    /\ ev.kind = "tick" /\ ev.heatTicks >= 2
    /\ OldHeat(PlayerCell) > 0
    /\ heat.grid[PlayerCell] > OldHeat(PlayerCell)
    /\ heat.grid[PlayerCell] * (FP - HEATMAP_DECAY) * 100
          >= HEATMAP_PLAYER_STAMP * FP * 99
====
